---- MODULE Spec2Model ----
(***************************************************************************)
(* RobsCron9000 (package robcorn): the store (SQLite tables jobs,          *)
(* schedules, run_logs), the schedule resolver (_get_due_jobs and the      *)
(* next-run computation), the polling loop of SchedulerEngine with its     *)
(* worker pool, and JobRunner.run_job / persist_run.                       *)
(*                                                                         *)
(* Text values the code compares or parses (dates, timestamps, day-of-     *)
(* month strings) are sequences of character codes, so formatting,         *)
(* parsing and string comparison are computed and not assumed.             *)
(***************************************************************************)
EXTENDS Integers, Sequences, FiniteSets, TLC

\* ------------------------------------------------------------------------
\* Bounds of the model
\* ------------------------------------------------------------------------
\* work items submitted plus API-test logs written in one behaviour
MaxOps == 2

\* ------------------------------------------------------------------------
\* Program constants
\* ------------------------------------------------------------------------
\* cleanup_logs(days = 30)
RetentionDays == 30

\* Python None / SQL NULL for integer columns and for text columns
NoneInt == -1
NULL == <<-1>>
\* the empty text ""
EmptyStr == <<>>

\* ------------------------------------------------------------------------
\* Text: character codes
\* ------------------------------------------------------------------------
\* codes used below: "-" = 45, "0".."9" = 48..57, ":" = 58, "T" = 84, " " = 32
IsDigit(c) == c >= 48 /\ c <= 57

\* f"{n:02d}" for 0 <= n <= 99
Str2(n) == <<48 + (n \div 10), 48 + (n % 10)>>

\* four-digit year
Str4(n) == <<48 + (n \div 1000), 48 + ((n \div 100) % 10),
             48 + ((n \div 10) % 10), 48 + (n % 10)>>

\* str(n) for 0 <= n <= 99, no padding
StrInt(n) == IF n < 10 THEN <<48 + n>> ELSE Str2(n)

AllDigits(s) == \A i \in 1..Len(s) : IsDigit(s[i])

RECURSIVE DigitsValue(_)
DigitsValue(s) ==
    IF Len(s) = 0 THEN 0
    ELSE 10 * DigitsValue(SubSeq(s, 1, Len(s) - 1)) + (s[Len(s)] - 48)

\* int(text): ValueError unless the text is a non-empty run of digits
IntParses(s) == Len(s) > 0 /\ AllDigits(s)
IntOf(s) == DigitsValue(s)

\* Python str comparison  a < b  (lexicographic on code points)
RECURSIVE StrLess(_, _)
StrLess(a, b) ==
    IF Len(b) = 0 THEN FALSE
    ELSE IF Len(a) = 0 THEN TRUE
    ELSE IF a[1] < b[1] THEN TRUE
    ELSE IF a[1] > b[1] THEN FALSE
    ELSE StrLess(Tail(a), Tail(b))

\* ------------------------------------------------------------------------
\* datetime / calendar
\* ------------------------------------------------------------------------
DT(y, mo, d, h, mi, s) ==
    [year |-> y, month |-> mo, day |-> d, hour |-> h, minute |-> mi, second |-> s]

NoDT == DT(0, 0, 0, 0, 0, 0)

Years == 2023..2026

IsLeap(y) == y % 4 = 0 /\ (y % 100 # 0 \/ y % 400 = 0)

\* calendar.monthrange(year, month)[1]
DaysInMonth(y, m) ==
    IF m = 2 THEN (IF IsLeap(y) THEN 29 ELSE 28)
    ELSE IF m \in {4, 6, 9, 11} THEN 30 ELSE 31

DaysBeforeYear(y) ==
    (y - 1) * 365 + ((y - 1) \div 4) - ((y - 1) \div 100) + ((y - 1) \div 400)

RECURSIVE DaysBeforeMonth(_, _)
DaysBeforeMonth(y, m) ==
    IF m = 1 THEN 0 ELSE DaysBeforeMonth(y, m - 1) + DaysInMonth(y, m - 1)

\* date.toordinal()
ToOrdinal(t) == DaysBeforeYear(t.year) + DaysBeforeMonth(t.year, t.month) + t.day

\* date.fromordinal(n), as [year, month, day]
FromOrdinal(n) ==
    LET y == CHOOSE yy \in Years :
                 DaysBeforeYear(yy) < n /\ n <= DaysBeforeYear(yy + 1)
        r == n - DaysBeforeYear(y)
        m == CHOOSE mm \in 1..12 :
                 DaysBeforeMonth(y, mm) < r /\ r <= DaysBeforeMonth(y, mm) + DaysInMonth(y, mm)
    IN  [year |-> y, month |-> m, day |-> r - DaysBeforeMonth(y, m)]

\* datetime.weekday(): Monday = 0 ... Sunday = 6
Weekday(t) == (ToOrdinal(t) + 6) % 7

\* t + timedelta(days = n)
AddDays(t, n) ==
    LET d == FromOrdinal(ToOrdinal(t) + n)
    IN  [t EXCEPT !.year = d.year, !.month = d.month, !.day = d.day]

MinuteOfDay(t) == t.hour * 60 + t.minute

SameDate(a, b) == a.year = b.year /\ a.month = b.month /\ a.day = b.day

\* a.date() < b.date()
DateLess(a, b) == ToOrdinal(a) < ToOrdinal(b)

\* datetime comparison  a < b
DtLess(a, b) ==
    \/ ToOrdinal(a) < ToOrdinal(b)
    \/ /\ ToOrdinal(a) = ToOrdinal(b)
       /\ \/ MinuteOfDay(a) < MinuteOfDay(b)
          \/ MinuteOfDay(a) = MinuteOfDay(b) /\ a.second < b.second

\* t.replace(second=0, microsecond=0)
TruncMinute(t) == [t EXCEPT !.second = 0]

\* date.isoformat()
IsoDate(t) == Str4(t.year) \o <<45>> \o Str2(t.month) \o <<45>> \o Str2(t.day)

\* datetime.isoformat(timespec="minutes")
IsoMinutes(t) == IsoDate(t) \o <<84>> \o Str2(t.hour) \o <<58>> \o Str2(t.minute)

\* datetime.isoformat(timespec="seconds")
IsoSeconds(t) == IsoMinutes(t) \o <<58>> \o Str2(t.second)

\* now.strftime("%Y-%m-%d %H:%M"), the loop's minute key (blank = 32)
MinuteKey(t) == IsoDate(t) \o <<32>> \o Str2(t.hour) \o <<58>> \o Str2(t.minute)

\* "YYYY-MM-DD" with a real calendar date
IsIsoDate(s) ==
    /\ Len(s) = 10
    /\ s[5] = 45 /\ s[8] = 45
    /\ AllDigits(SubSeq(s, 1, 4)) /\ AllDigits(SubSeq(s, 6, 7)) /\ AllDigits(SubSeq(s, 9, 10))
    /\ IntOf(SubSeq(s, 1, 4)) >= 1
    /\ IntOf(SubSeq(s, 6, 7)) \in 1..12
    /\ IntOf(SubSeq(s, 9, 10)) >= 1
    /\ IntOf(SubSeq(s, 9, 10)) <= DaysInMonth(IntOf(SubSeq(s, 1, 4)), IntOf(SubSeq(s, 6, 7)))

\* datetime.fromisoformat(s) for the texts the store holds:
\* "YYYY-MM-DD", "YYYY-MM-DDTHH:MM" and "YYYY-MM-DDTHH:MM:SS"
IsoParses(s) ==
    /\ Len(s) \in {10, 16, 19}
    /\ IsIsoDate(SubSeq(s, 1, 10))
    /\ Len(s) >= 16 =>
          /\ s[11] = 84 /\ s[14] = 58
          /\ AllDigits(SubSeq(s, 12, 13)) /\ AllDigits(SubSeq(s, 15, 16))
          /\ IntOf(SubSeq(s, 12, 13)) <= 23 /\ IntOf(SubSeq(s, 15, 16)) <= 59
    /\ Len(s) = 19 =>
          /\ s[17] = 58 /\ AllDigits(SubSeq(s, 18, 19)) /\ IntOf(SubSeq(s, 18, 19)) <= 59

FromIso(s) ==
    DT(IntOf(SubSeq(s, 1, 4)), IntOf(SubSeq(s, 6, 7)), IntOf(SubSeq(s, 9, 10)),
       IF Len(s) >= 16 THEN IntOf(SubSeq(s, 12, 13)) ELSE 0,
       IF Len(s) >= 16 THEN IntOf(SubSeq(s, 15, 16)) ELSE 0,
       IF Len(s) >= 19 THEN IntOf(SubSeq(s, 18, 19)) ELSE 0)

\* models._parse_dt: None for NULL or "", else fromisoformat
HasDt(v) == v # NULL /\ v # EmptyStr
ParseDt(v) == FromIso(v)

\* a & b on non-negative integers
RECURSIVE BitAnd(_, _)
BitAnd(a, b) ==
    IF a = 0 \/ b = 0 THEN 0
    ELSE (a % 2) * (b % 2) + 2 * BitAnd(a \div 2, b \div 2)

RECURSIVE Pow2(_)
Pow2(n) == IF n = 0 THEN 1 ELSE 2 * Pow2(n - 1)

\* scheduler.weekday_mask
weekday_mask(t) == Pow2(Weekday(t))


\* ------------------------------------------------------------------------
\* Sample universe of job configurations (text fields of a jobs row) and of
\* the environment the runner sees
\* ------------------------------------------------------------------------
\* str.startswith("tool:")
StartsWithTool(p) ==
    p \in {"tool:copy", "tool:bogus", "tool:delete", "tool:reboot", "tool:email"}

\* job.program_path.split("tool:", 1)[-1]
ToolName(p) ==
    CASE p = "tool:copy" -> "copy"
      [] p = "tool:bogus" -> "bogus"
      [] p = "tool:delete" -> "delete"
      [] p = "tool:reboot" -> "reboot"
      [] p = "tool:email" -> "email"
      [] OTHER -> p

\* the names _execute_tool dispatches on
KnownTools ==
    {"copy", "move", "delete", "zip", "download", "email", "wallpaper", "reboot",
     "shutdown", "vpn"}

\* the characters (ASCII codes) of the sample texts
Chars(s) ==
    CASE s = "-v" -> <<45, 118>>
      [] s = "'unclosed" -> <<39, 117, 110, 99, 108, 111, 115, 101, 100>>
      [] s = "source=a;destination=b" -> <<115, 111, 117, 114, 99, 101, 61, 97, 59, 100, 101, 115, 116, 105, 110, 97, 116, 105, 111, 110, 61, 98>>
      [] s = "source=a" -> <<115, 111, 117, 114, 99, 101, 61, 97>>
      [] s = "source=a;destination=" -> <<115, 111, 117, 114, 99, 101, 61, 97, 59, 100, 101, 115, 116, 105, 110, 97, 116, 105, 111, 110, 61>>
      [] s = "source=a;destination" -> <<115, 111, 117, 114, 99, 101, 61, 97, 59, 100, 101, 115, 116, 105, 110, 97, 116, 105, 111, 110>>
      [] s = "target=x" -> <<116, 97, 114, 103, 101, 116, 61, 120>>
      [] s = "source=a;;destination=b=c" -> <<115, 111, 117, 114, 99, 101, 61, 97, 59, 59, 100, 101, 115, 116, 105, 110, 97, 116, 105, 111, 110, 61, 98, 61, 99>>
      [] s = "smtp_host=h;smtp_port=25;sender=a;recipient=b;subject=s;body=b" -> <<115, 109, 116, 112, 95, 104, 111, 115, 116, 61, 104, 59, 115, 109, 116, 112, 95, 112, 111, 114, 116, 61, 50, 53, 59, 115, 101, 110, 100, 101, 114, 61, 97, 59, 114, 101, 99, 105, 112, 105, 101, 110, 116, 61, 98, 59, 115, 117, 98, 106, 101, 99, 116, 61, 115, 59, 98, 111, 100, 121, 61, 98>>
      [] s = "smtp_host=h;smtp_port=abc;sender=a;recipient=b;subject=s;body=b" -> <<115, 109, 116, 112, 95, 104, 111, 115, 116, 61, 104, 59, 115, 109, 116, 112, 95, 112, 111, 114, 116, 61, 97, 98, 99, 59, 115, 101, 110, 100, 101, 114, 61, 97, 59, 114, 101, 99, 105, 112, 105, 101, 110, 116, 61, 98, 59, 115, 117, 98, 106, 101, 99, 116, 61, 115, 59, 98, 111, 100, 121, 61, 98>>
      [] s = "source" -> <<115, 111, 117, 114, 99, 101>>
      [] s = "destination" -> <<100, 101, 115, 116, 105, 110, 97, 116, 105, 111, 110>>
      [] s = "target" -> <<116, 97, 114, 103, 101, 116>>
      [] s = "url" -> <<117, 114, 108>>
      [] s = "smtp_host" -> <<115, 109, 116, 112, 95, 104, 111, 115, 116>>
      [] s = "smtp_port" -> <<115, 109, 116, 112, 95, 112, 111, 114, 116>>
      [] s = "sender" -> <<115, 101, 110, 100, 101, 114>>
      [] s = "recipient" -> <<114, 101, 99, 105, 112, 105, 101, 110, 116>>
      [] s = "subject" -> <<115, 117, 98, 106, 101, 99, 116>>
      [] s = "body" -> <<98, 111, 100, 121>>
      [] s = "image_path" -> <<105, 109, 97, 103, 101, 95, 112, 97, 116, 104>>
      [] s = "command" -> <<99, 111, 109, 109, 97, 110, 100>>
      [] OTHER -> <<>>

\* Path(p).exists()
PathExists(p) == p \in {"C:/jobs/ok.exe", "C:/jobs/ok.bat"}

\* shlex.split(params, posix=False) raises ValueError("No closing quotation")
ShlexRaises(params) == params \in {"'unclosed"}

\* urllib.request.Request(url) raises ValueError("unknown url type")
UrlTypeUnknown(url) == url \in {"example.com/hook"}

\* execution fields of a job row
Exec(api_enabled, api_method, api_url, program_path, parameters, batch_path) ==
    [api_enabled |-> api_enabled, api_method |-> api_method, api_url |-> api_url,
     program_path |-> program_path, parameters |-> parameters, batch_path |-> batch_path,
     run_as_admin |-> 0, run_as_enabled |-> 0]

ExecProgram == Exec(0, "", "", "C:/jobs/ok.exe", "-v", "")
ExecBadArgs == Exec(0, "", "", "C:/jobs/ok.exe", "'unclosed", "")
ExecBadUrl == Exec(1, "POST", "example.com/hook", "", "", "")

\* a jobs row
JobRow(id, exec, active, once_per_day, last_run_at) ==
    [id |-> id, active |-> active, once_per_day |-> once_per_day,
     last_run_at |-> last_run_at, exec |-> exec]

\* a schedules row
SlotRow(id, job_id, schedule_type, days_mask, date, minute_of_day, active) ==
    [id |-> id, job_id |-> job_id, schedule_type |-> schedule_type, days_mask |-> days_mask,
     date |-> date, minute_of_day |-> minute_of_day, active |-> active]

\* ------------------------------------------------------------------------
\* State
\* ------------------------------------------------------------------------
VARIABLES
    now,                  \* the wall clock, datetime.now()
    jobs,                 \* table jobs: id -> row
    schedules,            \* table schedules: set of rows
    run_logs,             \* table run_logs: set of rows
    alive,                \* the engines whose polling thread is alive
    last_checked_minute,  \* SchedulerEngine._last_checked_minute, per engine
    tasks,                \* work items executing in the worker pools, in submission order
    ops,                  \* number of work items and API-test logs issued so far
    started,              \* history: executions started per <<origin, job id, scheduled minute>>
    polled,               \* history: due-job resolutions per engine within the clock's minute
    due_at,               \* argument of the last direct _get_due_jobs call
    due_result,           \* its result
    next_at,              \* reference time of the last next_run_for_job call
    next_result,          \* its result
    next_again,           \* result of next_run_for_job with the returned instant as now
    runner,               \* one run_job call: the job, the backend reached, the outcome
    http,                 \* one perform_request call: its arguments, attempts and result
    engine,               \* one SchedulerEngine seen through its lifecycle calls
    pool,                 \* one engine's polling loop and its executor: queue, workers, counters
    store,                \* callers of the store: open transaction, reader, workers, last call
    codec                 \* one serialize_tool_params / parse_tool_params round trip

\* the variables only the component specifications below change
sideVars == <<next_again, runner, http, engine, pool, store, codec>>

vars == <<now, jobs, schedules, run_logs, alive, last_checked_minute, tasks, ops,
          started, polled, due_at, due_result, next_at, next_result, sideVars>>

\* ids of the jobs in the database the behaviours start from
JobIds == {1}

\* the UI process and the service process each own one SchedulerEngine
Engines == {"ui", "service"}

Max(S) == CHOOSE x \in S : \A y \in S : y <= x

\* ------------------------------------------------------------------------
\* Store: run_logs
\* ------------------------------------------------------------------------
\* (start_time, output and error are written with the row and read by no operation
\* of the model; they are left out)
RunLogRow(id, job_id, scheduled_time, end_time, status, exit_code) ==
    [id |-> id, job_id |-> job_id, scheduled_time |-> scheduled_time,
     end_time |-> end_time, status |-> status, exit_code |-> exit_code]

\* rowid of the next inserted row (INTEGER PRIMARY KEY: largest rowid + 1)
NextRowId(rows) == IF rows = {} THEN 1 ELSE Max({r.id : r \in rows}) + 1

\* rows that collide with (job_id, scheduled_time) on idx_run_logs_unique
Conflicts(rows, job_id, scheduled_time) ==
    {r \in rows : r.job_id = job_id /\ r.scheduled_time = scheduled_time}

\* foreign keys not enforced
ForeignKeyOff(job_id) == TRUE

\* FOREIGN KEY(job_id) REFERENCES jobs(id), enforced (PRAGMA foreign_keys = ON)
ForeignKeyOk(job_id) == job_id \in DOMAIN jobs

\* INSERT OR REPLACE INTO run_logs: the colliding row is deleted, the new one inserted
InsertOrReplaceNoIndex(rows, row) == rows \cup {row}
InsertOrReplace(rows, row) ==
    (rows \ Conflicts(rows, row.job_id, row.scheduled_time)) \cup {row}

\* plain INSERT INTO run_logs: IntegrityError on a colliding row
InsertRaises(rows, row) == Conflicts(rows, row.job_id, row.scheduled_time) # {}

\* runner.RunResult
RunResult(status, exit_code, end_time) ==
    [status |-> status, exit_code |-> exit_code, end_time |-> end_time]

\* JobRunner.persist_run raises (sqlite3.IntegrityError) and commits nothing
PersistRaises(job_id) == ~ForeignKeyOk(job_id)

\* JobRunner.persist_run: run_logs after the call
PersistRunLogs(job_id, scheduled_time, result) ==
    IF PersistRaises(job_id) THEN run_logs
    ELSE InsertOrReplace(run_logs,
            RunLogRow(NextRowId(run_logs), job_id, IsoMinutes(scheduled_time),
                      IsoSeconds(result.end_time), result.status, result.exit_code))

\* JobRunner.persist_run: jobs after the call (UPDATE jobs SET last_run_at = end_time)
PersistJobs(job_id, result) ==
    IF PersistRaises(job_id) THEN jobs
    ELSE [jobs EXCEPT ![job_id].last_run_at = IsoSeconds(result.end_time)]


\* ------------------------------------------------------------------------
\* Runner: run_job
\* ------------------------------------------------------------------------
\* an outcome of run_job: a returned RunResult (status, exit_code) or an exception
Returned(status, exit_code) == [raised |-> FALSE, status |-> status, exit_code |-> exit_code]
Raised == [raised |-> TRUE, status |-> "", exit_code |-> NoneInt]

\* response statuses the HTTP backend can report (0: every attempt failed in transport)
HttpStatuses == {200, 404, 0}

\* JobRunner._run_api: perform_request builds urllib.request.Request(url) outside its
\* try block, so an unknown url type propagates
\* the statuses perform_request reports to _run_api
ApiStatuses == {0, 199, 200, 204, 299, 300, 404, 500}

\* JobRunner._run_api: the RunResult built from the status perform_request reported
ApiResultCodeAlways(status_code) ==
    Returned(IF 200 <= status_code /\ status_code < 300 THEN "success" ELSE "failed",
             status_code)
ApiResult(status_code) ==
    Returned(IF 200 <= status_code /\ status_code < 300 THEN "success" ELSE "failed",
             IF status_code # 0 THEN status_code ELSE NoneInt)

RunApi(exec) ==
    IF UrlTypeUnknown(exec.api_url) THEN {Raised}
    ELSE {ApiResult(c) : c \in ApiStatuses}

\* str.split(sep) on a text: the pieces between occurrences of the character sep
RECURSIVE SplitOn(_, _)
SplitOn(text, sep) ==
    LET cut == {i \in 1..Len(text) : text[i] = sep}
    IN  IF cut = {} THEN <<text>>
        ELSE LET i == CHOOSE k \in cut : \A m \in cut : k <= m
             IN  <<SubSeq(text, 1, i - 1)>> \o SplitOn(SubSeq(text, i + 1, Len(text)), sep)

\* one item of parse_tool_params: its key and value (item.split("=", 1))
ItemKey(item) ==
    LET eq == {i \in 1..Len(item) : item[i] = 61}
    IN  IF eq = {} THEN item
        ELSE SubSeq(item, 1, (CHOOSE k \in eq : \A m \in eq : k <= m) - 1)

ItemValue(item) ==
    LET eq == {i \in 1..Len(item) : item[i] = 61}
    IN  IF eq = {} THEN <<>>
        ELSE SubSeq(item, (CHOOSE k \in eq : \A m \in eq : k <= m) + 1, Len(item))

\* tools.parse_tool_params: the dict, as a function from keys to values (a later item
\* with the same key overwrites an earlier one)
ParseToolParams(raw) ==
    LET items == IF raw = <<>> THEN <<>> ELSE SplitOn(raw, 59)
        used == {i \in 1..Len(items) : items[i] # <<>>}
        last(k) == CHOOSE i \in used :
                       /\ ItemKey(items[i]) = k
                       /\ \A m \in used : ItemKey(items[m]) = k => m <= i
    IN  [k \in {ItemKey(items[i]) : i \in used} |-> ItemValue(items[last(k)])]

\* ";".join(items)
RECURSIVE JoinItems(_)
JoinItems(items) ==
    IF Len(items) = 0 THEN <<>>
    ELSE IF Len(items) = 1 THEN items[1]
    ELSE items[1] \o <<59>> \o JoinItems(Tail(items))

\* tools.serialize_tool_params: the dict is given as its items in insertion order,
\* each a pair <<key, value>>; every item becomes key=value
SerializeToolParams(params) ==
    JoinItems([i \in 1 .. Len(params) |-> params[i][1] \o <<61>> \o params[i][2]])

\* the dict whose items are the pairs of `params` (keys distinct)
DictOf(params) ==
    [k \in {params[i][1] : i \in 1 .. Len(params)} |->
        params[CHOOSE i \in 1 .. Len(params) : params[i][1] = k][2]]

\* a round trip through the stored text: the dict, the text serialize_tool_params
\* made of it and the dict parse_tool_params read back
Codec(pc, params, raw, parsed) == [pc |-> pc, params |-> params, raw |-> raw, parsed |-> parsed]

NoCodec == Codec("none", <<>>, <<>>, <<>>)

\* the fields validate_tool_params requires of each tool, in the order it checks them
RequiredFields(tool_name) ==
    IF tool_name \in {"copy", "move", "zip"} THEN <<"source", "destination">>
    ELSE IF tool_name = "delete" THEN <<"target">>
    ELSE IF tool_name = "download" THEN <<"url", "destination">>
    ELSE IF tool_name = "email"
        THEN <<"smtp_host", "smtp_port", "sender", "recipient", "subject", "body">>
    ELSE IF tool_name = "wallpaper" THEN <<"image_path">>
    ELSE IF tool_name = "vpn" THEN <<"command">>
    ELSE <<>>

\* tools._require_field: the field is reported when params.get(key) is missing or ""
FieldAbsent(params, key) == Chars(key) \notin DOMAIN params
FieldMissing(params, key) ==
    Chars(key) \notin DOMAIN params \/ params[Chars(key)] = <<>>

\* tools.validate_tool_params: the fields reported as missing
ValidateToolParams(tool_name, params) ==
    SelectSeq(RequiredFields(tool_name), LAMBDA key : FieldMissing(params, key))

\* _execute_tool raises while it builds the arguments of a known action:
\* int(params.get("smtp_port", "25") or 25) of the email action
ExecuteToolRaises(tool_name, params) ==
    /\ tool_name = "email"
    /\ Chars("smtp_port") \in DOMAIN params
    /\ params[Chars("smtp_port")] # <<>>
    /\ ~IntParses(params[Chars("smtp_port")])

\* JobRunner._run_tool reaches a ToolExecutor method: validation passed,
\* _execute_tool knows the tool and built its arguments
ExecutorInvoked(exec) ==
    /\ ValidateToolParams(ToolName(exec.program_path),
                          ParseToolParams(Chars(exec.parameters))) = <<>>
    /\ ToolName(exec.program_path) \in KnownTools
    /\ ~ExecuteToolRaises(ToolName(exec.program_path),
                          ParseToolParams(Chars(exec.parameters)))

\* JobRunner._run_tool: validation failure; unknown tool (ValueError, caught); an
\* exception while the arguments are built (caught); action success, action failure
\* (every ToolExecutor method catches its own exceptions and reports a failure)
RunTool(exec) ==
    IF ValidateToolParams(ToolName(exec.program_path),
                          ParseToolParams(Chars(exec.parameters))) # <<>>
        THEN {Returned("failed", 1)}
    ELSE IF ToolName(exec.program_path) \notin KnownTools
        THEN {Returned("failed", NoneInt)}
    ELSE IF ExecuteToolRaises(ToolName(exec.program_path),
                              ParseToolParams(Chars(exec.parameters)))
        THEN {Returned("failed", NoneInt)}
    ELSE {Returned("success", 0), Returned("failed", 1)}

\* JobRunner._build_command: "none" (None), "batch" (cmd.exe /c batch_path),
\* "program" (program_path and its split parameters) or "raise"
BuildCommandProgramFirst(exec) ==
    IF StartsWithTool(exec.program_path) THEN "none"
    ELSE IF exec.program_path # "" THEN
        (IF ~PathExists(exec.program_path) THEN "none"
         ELSE IF exec.parameters # "" /\ ShlexRaises(exec.parameters) THEN "raise"
         ELSE "program")
    ELSE IF exec.batch_path # "" THEN
        (IF PathExists(exec.batch_path) THEN "batch" ELSE "none")
    ELSE "none"
BuildCommand(exec) ==
    IF StartsWithTool(exec.program_path) THEN "none"
    ELSE IF exec.batch_path # "" THEN
        (IF PathExists(exec.batch_path) THEN "batch" ELSE "none")
    ELSE IF exec.program_path # "" THEN
        (IF ~PathExists(exec.program_path) THEN "none"
         ELSE IF exec.parameters # "" /\ ShlexRaises(exec.parameters) THEN "raise"
         ELSE "program")
    ELSE "none"

\* subprocess.run: zero exit, non-zero exit, timeout, any other exception (caught)
RunProcess ==
    {Returned("success", 0), Returned("failed", 1), Returned("timeout", NoneInt),
     Returned("failed", NoneInt)}

\* JobRunner.run_job: the outcomes the environment allows for this job
RunJobOutcomes(exec) ==
    IF exec.api_enabled = 1 /\ exec.api_url # "" /\ exec.api_method # "" THEN RunApi(exec)
    ELSE IF StartsWithTool(exec.program_path) THEN RunTool(exec)
    ELSE IF BuildCommand(exec) = "raise" THEN {Raised}
    ELSE IF BuildCommand(exec) = "none" THEN {Returned("failed", NoneInt)}
    ELSE RunProcess

\* JobRunner.run_job: the backend the run is handed to ("none": no backend is reached)
RunJobBackend(exec) ==
    IF exec.api_enabled = 1 /\ exec.api_url # "" /\ exec.api_method # "" THEN "http"
    ELSE IF StartsWithTool(exec.program_path) THEN "tool"
    ELSE IF BuildCommand(exec) = "raise" THEN "none"
    ELSE BuildCommand(exec)

\* a run_job call: its job, whether it was made, the backend reached, whether a
\* ToolExecutor method was reached, the status perform_request reported (NoneInt when
\* it reported none) and the outcome
RunJobCall(exec, called, backend, executor, response_status, outcome) ==
    [exec |-> exec, called |-> called, backend |-> backend, executor |-> executor,
     response_status |-> response_status, outcome |-> outcome]

NoRunJob == RunJobCall(ExecProgram, FALSE, "none", FALSE, NoneInt, Raised)

\* ------------------------------------------------------------------------
\* HTTP client: perform_request
\* ------------------------------------------------------------------------

\* what one urlopen call can do: deliver a response, raise HTTPError for an error
\* status, or fail at transport level with an exception whose text is `text`
Answer(kind, code, text) == [kind |-> kind, code |-> code, text |-> text]

Answers ==
    {Answer("response", 200, ""), Answer("response", 204, ""),
     Answer("http_error", 404, "HTTP Error 404: Not Found"),
     Answer("http_error", 500, "HTTP Error 500: Internal Server Error"),
     Answer("http_error", 503, "HTTP Error 503: Service Unavailable"),
     Answer("transport", 0, "<urlopen error [Errno 111] Connection refused>"),
     Answer("transport", 0, "<urlopen error timed out>"),
     Answer("transport", 0, "Remote end closed connection without response")}

\* attempts = retries + 1, without the lower limit
AttemptsUnclamped(retries) == retries + 1

\* attempts = max(1, retries + 1)
Attempts(retries) == Max({1, retries + 1})

\* any failed attempt is followed by another while attempts remain
RetriedAnyFailure(a, attempt, attempts) ==
    a.kind # "response" /\ attempt < attempts - 1

\* the attempt is followed by another one: HTTPError returns at once, any other
\* exception sleeps and continues unless this was the last attempt
Retried(a, attempt, attempts) ==
    a.kind = "transport" /\ attempt < attempts - 1

\* the value perform_request hands back: a record with status and response, and with
\* an error text on the two failure paths; None when the loop ends without a return
ResultRecord(status, has_error, error) ==
    [kind |-> "record", status |-> status, has_error |-> has_error, error |-> error]

NoResult == [kind |-> "None", status |-> NoneInt, has_error |-> FALSE, error |-> ""]

\* one call of perform_request: where it stands, its url and retries arguments, the
\* answers its urlopen calls got so far, the sleeps it made and what it returned
RequestCall(pc, url, retries, seen, sleeps, result) ==
    [pc |-> pc, url |-> url, retries |-> retries, seen |-> seen, sleeps |-> sleeps,
     result |-> result]

NoRequest == RequestCall("idle", "", 0, <<>>, 0, NoResult)

\* ------------------------------------------------------------------------
\* Engine lifecycle: SchedulerEngine.start / ensure_running / is_running / stop
\* ------------------------------------------------------------------------

\* the fields of an engine a lifecycle call can change: _thread, the threads created
\* so far with their positions, _stop_event and the state of the executor
EngineState(e) == <<e.thread, e.threads, e.stop_event, e.shutdown>>

\* a lifecycle call that has returned: its name, whether the loop thread was alive
\* when it was made, and the engine's fields before and after it
LifecycleCall(op, was_alive, before, after) ==
    [op |-> op, was_alive |-> was_alive, before |-> before, after |-> after]

\* the engine after __init__: no thread (0 stands for None), event clear, executor open,
\* no minute key checked yet. `minute` is the minute the wall clock shows, iter_minute
\* the minute each thread read at the start of its iteration; the rest is history:
\* done holds the minutes whose due jobs were resolved and handed to the executor,
\* caught tells that the loop's handler caught an exception in the current thread,
\* rejected that the executor refused a submit since the last start
NewEngine ==
    [thread |-> 0, threads |-> <<>>, slow |-> FALSE, stop_event |-> FALSE,
     shutdown |-> FALSE, caller |-> "none", calls |-> 0,
     last |-> LifecycleCall("none", FALSE, <<0, <<>>, FALSE, FALSE>>,
                            <<0, <<>>, FALSE, FALSE>>),
     after_stop |-> FALSE, late_resolve |-> FALSE,
     minute |-> 0, last_key |-> NoneInt, iter_minute |-> <<>>, done |-> {},
     caught |-> FALSE, rejected |-> FALSE]

\* threads of the engine that have not finished _run_loop
AliveThreads(e) == {i \in 1 .. Len(e.threads) : e.threads[i] # "dead"}

\* a start() that never finds a running thread
IsRunningNever(e) == FALSE

\* is_running(): bool(self._thread and self._thread.is_alive())
IsRunning(e) == e.thread # 0 /\ e.threads[e.thread] # "dead"

\* start(): nothing when the thread is alive; else clear the event, create and start
\* a thread, which begins at the loop condition
StartEngine(e) ==
    IF IsRunning(e)
       THEN e
       ELSE [e EXCEPT !.stop_event = FALSE,
                      !.threads = Append(@, "check"),
                      !.iter_minute = Append(@, NoneInt),
                      !.caught = FALSE,
                      !.thread = Len(e.threads) + 1]

\* an exception in the iteration ends the thread
IterationEndUncaught(outcome) ==
    CASE outcome = "due" -> "submit"
      [] outcome = "none" -> "sleep"
      [] OTHER -> "dead"

\* where the loop goes when _get_due_jobs has returned due jobs, returned none, or
\* raised: the for loop over the due jobs, or the sleep at the end of the iteration
\* (`except Exception` logs and falls through to it)
IterationEnd(outcome) ==
    CASE outcome = "due" -> "submit"
      [] outcome = "none" -> "sleep"
      [] OTHER -> "sleep"

\* ensure_running(): start() unless a thread exists and is alive
EnsureRunningEngine(e) ==
    IF e.thread = 0 \/ e.threads[e.thread] = "dead" THEN StartEngine(e) ELSE e

\* ------------------------------------------------------------------------
\* Worker pool of an engine: ThreadPoolExecutor(max_workers)
\* ------------------------------------------------------------------------

\* SchedulerEngine(max_workers = 4)
max_workers == 4

\* submit starts a worker thread whatever the number of threads
AdjustThreadCountUnbounded(threads, idle) ==
    IF idle > 0 THEN threads ELSE threads + 1

\* ThreadPoolExecutor._adjust_thread_count, called by submit: no new thread when a
\* worker is idle or max_workers threads exist
AdjustThreadCount(threads, idle) ==
    IF idle > 0 \/ threads >= max_workers THEN threads ELSE threads + 1

\* shutdown(wait=False, cancel_futures=True): the queued work items are dropped
ShutdownCancelsQueue(queue) == 0

\* ThreadPoolExecutor.shutdown(wait=False): the work items already in the queue stay
\* in it, ahead of the wake-up marker, and the workers go on taking them
ShutdownQueue(queue) == queue

\* the executor's counters when shutdown was last called (before any call: none)
AtStop(queue, executing, submitted) ==
    [queue |-> queue, executing |-> executing, submitted |-> submitted]

\* an engine's loop and executor: where the loop stands, the due jobs of the running
\* iteration not yet submitted, the work items in the executor's queue, its worker
\* threads and how many of them are inside _run_and_persist, _stop_event, whether the
\* executor is shut down, whether a stop() call waits in join, and whether the running
\* iteration lasts longer than the join timeout; as history the number of work items
\* submitted and finished, the loop iterations completed while work items were
\* executing, the counters at the last shutdown and whether a submit was refused
NewPool ==
    [pc |-> "check", due |-> 0, queue |-> 0, threads |-> 0, executing |-> 0,
     submitted |-> 0, finished |-> 0, busy_ticks |-> 0,
     stop_event |-> FALSE, shutdown |-> FALSE, joining |-> FALSE, slow |-> FALSE,
     at_stop |-> AtStop(0, 0, NoneInt), rejected |-> FALSE]

\* ------------------------------------------------------------------------
\* Store operations on jobs and schedules: Repository
\* ------------------------------------------------------------------------

\* DELETE that removes nothing
DeleteSlotsNone(rows, job_id) == rows

\* DELETE FROM schedules WHERE job_id = ?
DeleteSlots(rows, job_id) == {s \in rows : s.job_id # job_id}

\* the rows the INSERT of replace_schedule_slots adds to a table holding `rows`: one
\* per entry of slots, in order, all with the given kind, mask and date and active = 1
NewSlotRows(rows, job_id, schedule_type, slots, days_mask, date) ==
    {SlotRow(NextRowId(rows) + i - 1, job_id, schedule_type, days_mask, date, slots[i], 1) :
        i \in 1 .. Len(slots)}

\* executemany raises IntegrityError: the job row is missing (foreign key) or a
\* minute_of_day is None (NOT NULL); NoneInt stands for None
InsertManyRaises(job_id, slots) ==
    /\ Len(slots) > 0
    /\ \/ ~ForeignKeyOk(job_id)
       \/ \E i \in 1 .. Len(slots) : slots[i] = NoneInt

\* UPDATE schedules SET active = ? WHERE job_id = ?
SetActiveRows(rows, job_id, active) ==
    {IF s.job_id = job_id THEN [s EXCEPT !.active = active] ELSE s : s \in rows}

\* a reader that sees the uncommitted rows of the writing connection
ReaderViewDirty(committed, pending) == pending

\* what a query on another connection reads while a transaction is open: the
\* committed rows
ReaderView(committed, pending) == committed

\* the INSERT of create_job names 25 columns and gives 24 values
CreateJobColumns == 25
CreateJobValues == 24

\* sqlite3 refuses to prepare the statement (OperationalError: 24 values for 25 columns)
CreateJobRaises == CreateJobColumns # CreateJobValues

\* the open transaction of a replace_schedule_slots call: the job, its rows before the
\* call (old), the rows the call is to leave (new), the rows of the table as the
\* writing connection sees them (pending), and for a call made by PUT /tasks/<id> the
\* active flag of the request (NoneInt for a direct call)
Txn(pc, job, old, new, pending, raises, api_active) ==
    [pc |-> pc, job |-> job, old |-> old, new |-> new, pending |-> pending,
     raises |-> raises, api_active |-> api_active]

NoTxn == Txn("idle", 0, {}, {}, {}, FALSE, NoneInt)

\* a store call that has ended: its name and job, whether it raised, and whether a
\* run_logs row with its key existed when it was made
StoreCall(op, job, raised, dup) == [op |-> op, job |-> job, raised |-> raised, dup |-> dup]

\* the store's callers at rest: no transaction open, nothing observed by a reader, no
\* worker executing a job, no call made; persisted_end is the latest end_time of the
\* results persist_run has committed (NoDT: none yet)
NewStore ==
    [txn |-> NoTxn, observed |-> FALSE, seen |-> {}, workers |-> {},
     last |-> StoreCall("none", 0, FALSE, FALSE), calls |-> 0, persisted_end |-> NoDT]

\* ------------------------------------------------------------------------
\* Schedule resolver: _get_due_jobs
\* ------------------------------------------------------------------------
\* rows of a set of schedules rows, ordered by rowid
RECURSIVE ById(_)
ById(rows) ==
    IF rows = {} THEN <<>>
    ELSE LET r == CHOOSE x \in rows : \A y \in rows : x.id <= y.id
         IN  <<r>> \o ById(rows \ {r})

\* SchedulerEngine._has_run_log
HasRunLogSeconds(job_id, scheduled_time) ==
    \E r \in run_logs : r.job_id = job_id /\ r.scheduled_time = IsoSeconds(scheduled_time)
HasRunLog(job_id, scheduled_time) ==
    \E r \in run_logs : r.job_id = job_id /\ r.scheduled_time = IsoMinutes(scheduled_time)

\* the WHERE clause of the due-job query
DueQueryNoWeekday(s, t) ==
    /\ s.job_id \in DOMAIN jobs
    /\ jobs[s.job_id].active = 1
    /\ s.active = 1
    /\ s.minute_of_day = MinuteOfDay(t)
    /\ \/ s.schedule_type = "recurring" /\ s.days_mask # 0
       \/ s.schedule_type = "date" /\ s.date = IsoDate(t)
       \/ s.schedule_type = "monthly" /\ s.date = Str2(t.day)
DueQuery(s, t) ==
    /\ s.job_id \in DOMAIN jobs
    /\ jobs[s.job_id].active = 1
    /\ s.active = 1
    /\ s.minute_of_day = MinuteOfDay(t)
    /\ \/ s.schedule_type = "recurring" /\ BitAnd(s.days_mask, weekday_mask(t)) # 0
       \/ s.schedule_type = "date" /\ s.date = IsoDate(t)
       \/ s.schedule_type = "monthly" /\ s.date = Str2(t.day)

\* once-per-day suppression (scheduler.py 104-106)
RanTodayNever(job, t) == FALSE
RanToday(job, t) ==
    /\ job.once_per_day = 1
    /\ HasDt(job.last_run_at)
    /\ IsoDate(ParseDt(job.last_run_at)) = IsoDate(t)

\* the monthly check inside the loop (scheduler.py 109-115); the row's date is never
\* NULL here because the query matched it against a text
MonthlySkip(s, t) ==
    /\ s.schedule_type = "monthly"
    /\ \/ ~IntParses(s.date)
       \/ /\ IntOf(s.date) > DaysInMonth(t.year, t.month)
          /\ t.day # DaysInMonth(t.year, t.month)

\* the loop over the query's rows
DueKeep(s, t) ==
    /\ ~RanToday(jobs[s.job_id], t)
    /\ ~HasRunLog(s.job_id, TruncMinute(t))
    /\ ~MonthlySkip(s, t)

DueJob(job, schedule_id, scheduled_time) ==
    [job |-> job, schedule_id |-> schedule_id, scheduled_time |-> scheduled_time]

\* SchedulerEngine._get_due_jobs(now): the list of DueJob
GetDueJobs(t) ==
    LET rows == ById({s \in schedules : DueQuery(s, t) /\ DueKeep(s, t)})
    IN  [i \in 1..Len(rows) |->
            DueJob(jobs[rows[i].job_id], rows[i].id, TruncMinute(t))]


\* ------------------------------------------------------------------------
\* Schedule resolver: next_run_for_job
\* ------------------------------------------------------------------------
\* result of the next-run computation: an instant, None, or an exception
At(t) == [kind |-> "at", at |-> t]
NoRun == [kind |-> "none", at |-> NoDT]
NextRaised == [kind |-> "raise", at |-> NoDT]
NotCalled == [kind |-> "uncalled", at |-> NoDT]

\* rows ordered by minute_of_day (ORDER BY minute_of_day; ties in rowid order)
RECURSIVE ByMinute(_)
ByMinute(rows) ==
    IF rows = {} THEN <<>>
    ELSE LET r == CHOOSE x \in rows : \A y \in rows :
                     \/ x.minute_of_day < y.minute_of_day
                     \/ x.minute_of_day = y.minute_of_day /\ x.id <= y.id
         IN  <<r>> \o ByMinute(rows \ {r})

\* repository._minute_to_datetime
MinuteToDatetime(reference, minute_of_day) ==
    [reference EXCEPT !.hour = minute_of_day \div 60, !.minute = minute_of_day % 60,
                      !.second = 0]

\* index of the first slot the inner loop does not skip, 0 if it skips all;
\* sameDay: the candidate date is now's date
FirstSlot(t, slots, sameDay) ==
    LET ok == {i \in 1..Len(slots) :
                  ~(sameDay /\ slots[i].minute_of_day < MinuteOfDay(t))}
    IN  IF ok = {} THEN 0 ELSE CHOOSE i \in ok : \A k \in ok : i <= k

\* repository._next_recurring_run
NextRecurringRunLastSlot(t, slots) ==
    LET hit(off) == {i \in 1..Len(slots) :
                        /\ BitAnd(slots[i].days_mask, weekday_mask(AddDays(t, off))) # 0
                        /\ ~(off = 0 /\ slots[i].minute_of_day < MinuteOfDay(t))}
        offs == {off \in 0..7 : hit(off) # {}}
    IN  IF offs = {} THEN NoRun
        ELSE LET off == CHOOSE o \in offs : \A k \in offs : o <= k
                 i == CHOOSE j \in hit(off) : \A k \in hit(off) : j >= k
             IN  At(MinuteToDatetime(AddDays(t, off), slots[i].minute_of_day))
NextRecurringRun(t, slots) ==
    LET hit(off) == {i \in 1..Len(slots) :
                        /\ BitAnd(slots[i].days_mask, weekday_mask(AddDays(t, off))) # 0
                        /\ ~(off = 0 /\ slots[i].minute_of_day < MinuteOfDay(t))}
        offs == {off \in 0..7 : hit(off) # {}}
    IN  IF offs = {} THEN NoRun
        ELSE LET off == CHOOSE o \in offs : \A k \in offs : o <= k
                 i == CHOOSE j \in hit(off) : \A k \in hit(off) : j <= k
             IN  At(MinuteToDatetime(AddDays(t, off), slots[i].minute_of_day))

\* repository._next_date_run
NextDateRun(t, slots) ==
    LET date_str == slots[1].date
    IN  IF date_str = NULL \/ date_str = EmptyStr THEN NoRun
        ELSE IF ~IsoParses(date_str) THEN NoRun
        ELSE LET target == FromIso(date_str)
                 i == FirstSlot(t, slots, SameDate(target, t))
             IN  IF DateLess(target, t) THEN NoRun
                 ELSE IF i = 0 THEN NoRun
                 ELSE At(MinuteToDatetime(
                         [t EXCEPT !.year = target.year, !.month = target.month,
                                   !.day = target.day],
                         slots[i].minute_of_day))

\* candidate date of _next_monthly_run for a month offset
MonthlyCandidate(t, scheduled_day, month_offset) ==
    LET tm == t.month + month_offset
        ty == t.year + ((tm - 1) \div 12)
        m == ((tm - 1) % 12) + 1
        last_day == DaysInMonth(ty, m)
        run_day == IF scheduled_day < last_day THEN scheduled_day ELSE last_day
    IN  DT(ty, m, run_day, 0, 0, 0)

\* repository._next_monthly_run
NextMonthlyRun(t, slots) ==
    LET day_str == IF slots[1].date = NULL THEN EmptyStr ELSE slots[1].date
    IN  IF ~IntParses(day_str) THEN NoRun
        ELSE IF IntOf(day_str) < 1 THEN NextRaised   \* datetime(year, month, 0): ValueError
        ELSE
          LET d == IntOf(day_str)
              usable(off) ==
                  LET c == MonthlyCandidate(t, d, off)
                  IN  ~DateLess(c, t) /\ FirstSlot(t, slots, SameDate(c, t)) # 0
              offs == {off \in 0..12 : usable(off)}
          IN  IF offs = {} THEN NoRun
              ELSE LET off == CHOOSE o \in offs : \A k \in offs : o <= k
                       c == MonthlyCandidate(t, d, off)
                       i == FirstSlot(t, slots, SameDate(c, t))
                   IN  At(MinuteToDatetime(c, slots[i].minute_of_day))

\* Repository.next_run_for_job, with datetime.now() = t
NextRunForJob(job_id, t) ==
    LET row == ByMinute({s \in schedules : s.job_id = job_id /\ s.active = 1})
    IN  IF Len(row) = 0 THEN NoRun
        ELSE IF row[1].schedule_type = "date" THEN NextDateRun(t, row)
        ELSE IF row[1].schedule_type = "monthly" THEN NextMonthlyRun(t, row)
        ELSE NextRecurringRun(t, row)


\* ------------------------------------------------------------------------
\* The running system: clock, pollers, workers, UI operations
\* ------------------------------------------------------------------------
\* instants at which the model observes the clock (2024-01-03 is a Wednesday)
ClockInstants ==
    << DT(2024, 1, 3, 10, 0, 0), DT(2024, 1, 3, 10, 5, 0), DT(2024, 2, 10, 10, 0, 20) >>

ClockIndex(t) == CHOOSE i \in 1..Len(ClockInstants) : ClockInstants[i] = t

MainExecs == {ExecProgram, ExecBadArgs, ExecBadUrl}

\* the slots of job j in the initial store: every day at 10:00 and 10:05
InitSlots(j) ==
    {SlotRow(2 * j - 1, j, "recurring", 127, NULL, 600, 1),
     SlotRow(2 * j, j, "recurring", 127, NULL, 605, 1)}

Task(origin, job, schedule_id, scheduled_time) ==
    [origin |-> origin, job |-> job, schedule_id |-> schedule_id,
     scheduled_time |-> scheduled_time]

RemoveAt(seq, i) == SubSeq(seq, 1, i - 1) \o SubSeq(seq, i + 1, Len(seq))

Bump(f, key) == IF key \in DOMAIN f THEN [f EXCEPT ![key] = @ + 1] ELSE f @@ (key :> 1)

RECURSIVE BumpAll(_, _)
BumpAll(f, keys) ==
    IF Len(keys) = 0 THEN f ELSE BumpAll(Bump(f, keys[1]), Tail(keys))

\* The store is an existing database file (init_db only creates what is missing); its
\* jobs were all saved with the same execution fields and once-per-day flag.
Init ==
    /\ now = ClockInstants[1]
    /\ \E ex \in MainExecs, opd \in {0, 1} :
          jobs = [j \in JobIds |-> JobRow(j, ex, 1, opd, NULL)]
    /\ schedules = UNION {InitSlots(j) : j \in JobIds}
    /\ run_logs = {}
    /\ alive \in {{"ui"}, {"ui", "service"}}
    /\ last_checked_minute = [e \in Engines |-> EmptyStr]
    /\ tasks = <<>>
    /\ ops = 0
    /\ started = <<>>
    /\ polled = [e \in Engines |-> 0]
    /\ due_at = NoDT
    /\ due_result = <<>>
    /\ next_at = NoDT
    /\ next_result = NoRun
    /\ next_again = NotCalled
    /\ runner = NoRunJob
    /\ http = NoRequest
    /\ engine = NewEngine
    /\ pool = NewPool
    /\ store = NewStore
    /\ codec = NoCodec


\* The clock moves forward. A live loop iterates about once per second, so it has
\* resolved the current minute before the clock leaves it (unless MaxOps forbids).
Tick ==
    /\ \E i \in 1..Len(ClockInstants) : i > ClockIndex(now) /\ now' = ClockInstants[i]
    /\ \A e \in alive : \/ last_checked_minute[e] = MinuteKey(now)
                        \/ ops + Len(GetDueJobs(now)) > MaxOps
    /\ polled' = [e \in Engines |-> IF MinuteKey(now') = MinuteKey(now) THEN polled[e] ELSE 0]
    /\ UNCHANGED <<sideVars, jobs, schedules, run_logs, alive, last_checked_minute, tasks, ops,
                   started, due_at, due_result, next_at, next_result>>

\* the value _run_loop stores in _last_checked_minute when the minute key is new
PollKeepKey(e, t) == last_checked_minute[e]
PollKey(e, t) == MinuteKey(t)

\* SchedulerEngine._run_loop, one iteration in which the minute key is new: the key is
\* stored, the due jobs are resolved and each is submitted to the engine's pool, where
\* a pool thread enters run_job (the pool holds more threads than MaxOps)
Poll(e) ==
    LET due == GetDueJobs(now)
    IN  /\ e \in alive
        /\ MinuteKey(now) # last_checked_minute[e]
        /\ ops + Len(due) <= MaxOps
        /\ last_checked_minute' = [last_checked_minute EXCEPT ![e] = PollKey(e, now)]
        /\ tasks' = tasks \o [i \in 1..Len(due) |->
                                Task(e, due[i].job, due[i].schedule_id, due[i].scheduled_time)]
        /\ ops' = ops + Len(due)
        /\ polled' = [polled EXCEPT ![e] = @ + 1]
        /\ started' = BumpAll(started, [i \in 1..Len(due) |->
                                <<e, due[i].job.id, IsoMinutes(due[i].scheduled_time)>>])
        /\ UNCHANGED <<sideVars, now, jobs, schedules, run_logs, alive,
                       due_at, due_result, next_at, next_result>>

\* _run_and_persist / _run_now, run_job raising: the exception ends the task in the
\* pool and persist_run is not reached
WorkerRaise(i) ==
    /\ \E o \in RunJobOutcomes(tasks[i].job.exec) : o.raised
    /\ tasks' = RemoveAt(tasks, i)
    /\ UNCHANGED <<sideVars, now, jobs, schedules, run_logs, alive, last_checked_minute, ops,
                   started, polled, due_at, due_result, next_at, next_result>>

\* _run_and_persist / _run_now, run_job returning a RunResult: persist_run writes it in
\* one transaction, or raises IntegrityError and writes nothing
WorkerFinish(i) ==
    /\ \E o \in RunJobOutcomes(tasks[i].job.exec) :
          /\ ~o.raised
          /\ LET result == RunResult(o.status, o.exit_code, now)
             IN  /\ run_logs' = PersistRunLogs(tasks[i].job.id, tasks[i].scheduled_time, result)
                 /\ jobs' = PersistJobs(tasks[i].job.id, result)
    /\ tasks' = RemoveAt(tasks, i)
    /\ UNCHANGED <<sideVars, now, schedules, alive, last_checked_minute, ops, started, polled,
                   due_at, due_result, next_at, next_result>>

\* MainWindow._start_selected_job / TaskEditorDialog._start_job_now: run now
ManualRunNow(j) ==
    /\ j \in DOMAIN jobs
    /\ ops < MaxOps
    /\ ops' = ops + 1
    /\ tasks' = Append(tasks, Task("manual", jobs[j], 0, TruncMinute(now)))
    /\ started' = Bump(started, <<"manual", j, IsoMinutes(TruncMinute(now))>>)
    /\ UNCHANGED <<sideVars, now, jobs, schedules, run_logs, alive, last_checked_minute, polled,
                   due_at, due_result, next_at, next_result>>

\* Repository.log_api_test: plain INSERT keyed by the current second; an IntegrityError
\* (duplicate key, missing job) leaves the table as it was
LogApiTest(j, status_code) ==
    /\ ops < MaxOps
    /\ ops' = ops + 1
    /\ LET row == RunLogRow(NextRowId(run_logs), j, IsoSeconds(now), IsoSeconds(now),
                            IF 200 <= status_code /\ status_code < 300
                                THEN "success" ELSE "failed",
                            IF status_code # 0 THEN status_code ELSE NoneInt)
       IN  run_logs' = IF ~ForeignKeyOk(j) \/ InsertRaises(run_logs, row)
                       THEN run_logs
                       ELSE run_logs \cup {row}
    /\ UNCHANGED <<sideVars, now, jobs, schedules, alive, last_checked_minute, tasks, started, polled,
                   due_at, due_result, next_at, next_result>>

\* Repository.delete_job
DeleteJob(j) ==
    /\ j \in DOMAIN jobs
    /\ schedules' = {s \in schedules : s.job_id # j}
    /\ run_logs' = {r \in run_logs : r.job_id # j}
    /\ jobs' = [k \in DOMAIN jobs \ {j} |-> jobs[k]]
    /\ UNCHANGED <<sideVars, now, alive, last_checked_minute, tasks, ops, started, polled,
                   due_at, due_result, next_at, next_result>>

\* Repository.cleanup_logs(days = 30): the retention sweep
CleanupLogs ==
    /\ \E r \in run_logs : StrLess(r.scheduled_time, IsoMinutes(AddDays(now, 0 - RetentionDays)))
    /\ run_logs' = {r \in run_logs :
                      ~StrLess(r.scheduled_time, IsoMinutes(AddDays(now, 0 - RetentionDays)))}
    /\ UNCHANGED <<sideVars, now, jobs, schedules, alive, last_checked_minute, tasks, ops, started,
                   polled, due_at, due_result, next_at, next_result>>

Next ==
    \/ Tick
    \/ \E e \in Engines : Poll(e)
    \/ \E i \in 1..Len(tasks) : WorkerRaise(i)
    \/ \E i \in 1..Len(tasks) : WorkerFinish(i)
    \/ \E j \in JobIds : ManualRunNow(j)
    \/ \E j \in JobIds, c \in HttpStatuses : LogApiTest(j, c)
    \/ \E j \in JobIds : DeleteJob(j)
    \/ CleanupLogs

Spec == Init /\ [][Next]_vars


\* ------------------------------------------------------------------------
\* The schedule resolver on its own: _get_due_jobs(now) and next_run_for_job
\* applied to stores and reference times drawn from a sample universe
\* ------------------------------------------------------------------------
\* 2024-01-03 is a Wednesday, 2024-01-06 a Saturday, 2024-01-07 a Sunday;
\* 2024-04-30, 2024-02-29 and 2025-02-28 are last days of short months
ResolverTimes ==
    {DT(2024, 1, 3, 10, 0, 0), DT(2024, 1, 3, 10, 0, 30), DT(2024, 1, 6, 10, 0, 0),
     DT(2024, 1, 7, 10, 0, 0), DT(2024, 1, 31, 10, 0, 0), DT(2024, 4, 30, 10, 0, 0),
     DT(2024, 4, 29, 10, 0, 0), DT(2024, 2, 29, 10, 0, 0), DT(2025, 2, 28, 10, 0, 0),
     DT(2024, 1, 5, 10, 0, 0), DT(2024, 12, 31, 10, 0, 59)}

\* minute_of_day lists a schedule is saved with
SlotMinutes == {<<600>>, <<595, 605>>, <<600, 605>>, <<600, 600>>}

\* (schedule_type, days_mask, date) triples a schedule is saved with; 31 = Monday to
\* Friday, 32 = Saturday, 65 = Monday and Sunday
ScheduleKinds(t) ==
    {<<"recurring", m, NULL>> : m \in {31, 32, 65, 127, 0}}
    \cup {<<"monthly", 0, d>> : d \in {Str2(31), Str2(30), Str2(5), StrInt(5), Str2(3)}}
    \cup {<<"date", 0, d>> : d \in {IsoDate(t), IsoDate(AddDays(t, 1)), IsoDate(AddDays(t, 0 - 1))}}

\* the rows replace_schedule_slots and set_schedule_active leave for job 1
SavedSlots(kind, minutes, active) ==
    {SlotRow(i, 1, kind[1], kind[2], kind[3], minutes[i], active) : i \in 1..Len(minutes)}

InitResolver ==
    /\ now \in ResolverTimes
    /\ \E a \in {0, 1}, o \in {0, 1},
          l \in {NULL, IsoSeconds(now), IsoSeconds(AddDays(now, 0 - 1))} :
          jobs = (1 :> JobRow(1, ExecProgram, a, o, l))
    /\ \E k \in ScheduleKinds(now), ms \in SlotMinutes, a \in {0, 1} :
          schedules = SavedSlots(k, ms, a)
    /\ run_logs \in
          {{},
           {RunLogRow(1, 1, IsoMinutes(now), IsoSeconds(now), "success", 0)},
           {RunLogRow(1, 1, IsoSeconds(now), IsoSeconds(now), "success", 200)}}
    /\ alive = {}
    /\ last_checked_minute = [e \in Engines |-> EmptyStr]
    /\ tasks = <<>>
    /\ ops = 0
    /\ started = <<>>
    /\ polled = [e \in Engines |-> 0]
    /\ due_at = NoDT
    /\ due_result = <<>>
    /\ next_at = NoDT
    /\ next_result = NoRun
    /\ next_again = NotCalled
    /\ runner = NoRunJob
    /\ http = NoRequest
    /\ engine = NewEngine
    /\ pool = NewPool
    /\ store = NewStore
    /\ codec = NoCodec

\* a direct call _get_due_jobs(now)
CallGetDueJobs ==
    /\ due_at = NoDT
    /\ due_at' = now
    /\ due_result' = GetDueJobs(now)
    /\ UNCHANGED <<sideVars, now, jobs, schedules, run_logs, alive, last_checked_minute, tasks, ops,
                   started, polled, next_at, next_result>>

\* a call next_run_for_job(1) at datetime.now() = now
CallNextRun ==
    /\ next_at = NoDT
    /\ next_at' = now
    /\ next_result' = NextRunForJob(1, now)
    /\ UNCHANGED <<sideVars, now, jobs, schedules, run_logs, alive, last_checked_minute, tasks, ops,
                   started, polled, due_at, due_result>>

\* a second call next_run_for_job(1), made when the clock shows the instant the first
\* call returned
CallNextRunAgain ==
    /\ next_result.kind = "at"
    /\ next_again = NotCalled
    /\ next_again' = NextRunForJob(1, next_result.at)
    /\ UNCHANGED <<now, jobs, schedules, run_logs, alive, last_checked_minute, tasks, ops,
                   started, polled, due_at, due_result, next_at, next_result, runner, http, engine,
                   pool, store, codec>>

\* a call _get_due_jobs(r), made when the clock shows the instant r that
\* next_run_for_job returned
CallGetDueJobsAtNextRun ==
    /\ next_result.kind = "at"
    /\ due_at = NoDT
    /\ due_at' = next_result.at
    /\ due_result' = GetDueJobs(next_result.at)
    /\ UNCHANGED <<sideVars, now, jobs, schedules, run_logs, alive, last_checked_minute, tasks, ops,
                   started, polled, next_at, next_result>>

NextResolver ==
    \/ CallGetDueJobs
    \/ CallGetDueJobsAtNextRun
    \/ CallNextRun
    \/ CallNextRunAgain

SpecResolver == InitResolver /\ [][NextResolver]_vars


\* ------------------------------------------------------------------------
\* The runner on its own: run_job applied to job configurations drawn from a sample
\* universe, in the environments the sample universe allows
\* ------------------------------------------------------------------------
RunnerParameters ==
    {"", "-v", "'unclosed", "source=a;destination=b", "source=a", "source=a;destination=",
     "source=a;destination", "target=x", "source=a;;destination=b=c",
     "smtp_host=h;smtp_port=25;sender=a;recipient=b;subject=s;body=b",
     "smtp_host=h;smtp_port=abc;sender=a;recipient=b;subject=s;body=b"}

RunnerExecs ==
    {Exec(a, m, u, p, q, b) :
        a \in {0, 1}, m \in {"", "GET"},
        u \in {"", "http://example.com/hook", "example.com/hook"},
        p \in {"", "C:/jobs/ok.exe", "C:/jobs/missing.exe", "tool:copy", "tool:delete",
               "tool:bogus", "tool:reboot", "tool:email"},
        q \in RunnerParameters,
        b \in {"", "C:/jobs/ok.bat", "C:/jobs/missing.bat"}}

InitRunner ==
    /\ now = ClockInstants[1]
    /\ jobs = <<>>
    /\ schedules = {}
    /\ run_logs = {}
    /\ alive = {}
    /\ last_checked_minute = [e \in Engines |-> EmptyStr]
    /\ tasks = <<>>
    /\ ops = 0
    /\ started = <<>>
    /\ polled = [e \in Engines |-> 0]
    /\ due_at = NoDT
    /\ due_result = <<>>
    /\ next_at = NoDT
    /\ next_result = NoRun
    /\ next_again = NotCalled
    /\ \E exec \in RunnerExecs :
          runner = RunJobCall(exec, FALSE, "none", FALSE, NoneInt, Raised)
    /\ http = NoRequest
    /\ engine = NewEngine
    /\ pool = NewPool
    /\ store = NewStore
    /\ codec = NoCodec

\* JobRunner.run_job(job, scheduled_time)
CallRunJob ==
    /\ ~runner.called
    /\ \E o \in RunJobOutcomes(runner.exec), c \in ApiStatuses \cup {NoneInt} :
          /\ IF RunJobBackend(runner.exec) = "http" /\ ~o.raised
                THEN c \in ApiStatuses /\ o = ApiResult(c)
                ELSE c = NoneInt
          /\ runner' = RunJobCall(runner.exec, TRUE, RunJobBackend(runner.exec),
                                  /\ RunJobBackend(runner.exec) = "tool"
                                  /\ ExecutorInvoked(runner.exec),
                                  c, o)
    /\ UNCHANGED <<now, jobs, schedules, run_logs, alive, last_checked_minute, tasks, ops,
                   started, polled, due_at, due_result, next_at, next_result, next_again, http,
                   engine, pool, store, codec>>

NextRunner == CallRunJob

SpecRunner == InitRunner /\ [][NextRunner]_vars


\* ------------------------------------------------------------------------
\* The HTTP client on its own: one perform_request call per behaviour, the answers of
\* the remote end chosen freely at each urlopen call
\* ------------------------------------------------------------------------
MaxRetries == 2

RequestRetries == (0 - 2) .. MaxRetries

\* the rest of the system at rest, with an empty database
Quiescent ==
    /\ now = ClockInstants[1]
    /\ jobs = <<>>
    /\ schedules = {}
    /\ run_logs = {}
    /\ alive = {}
    /\ last_checked_minute = [e \in Engines |-> EmptyStr]
    /\ tasks = <<>>
    /\ ops = 0
    /\ started = <<>>
    /\ polled = [e \in Engines |-> 0]
    /\ due_at = NoDT
    /\ due_result = <<>>
    /\ next_at = NoDT
    /\ next_result = NoRun
    /\ next_again = NotCalled
    /\ runner = NoRunJob

InitRequest ==
    /\ Quiescent
    /\ \E u \in {"http://example.com/hook", "example.com/hook"}, r \in RequestRetries :
          http = RequestCall("idle", u, r, <<>>, 0, NoResult)
    /\ engine = NewEngine
    /\ pool = NewPool
    /\ store = NewStore
    /\ codec = NoCodec

\* perform_request up to the attempt loop: the Request object is built, which raises
\* for a url of unknown type, and the number of attempts is fixed; a loop of zero
\* attempts falls through to the end of the function
BeginRequest ==
    /\ http.pc = "idle"
    /\ http' = IF UrlTypeUnknown(http.url)
                  THEN [http EXCEPT !.pc = "raised"]
                  ELSE IF Attempts(http.retries) <= 0
                          THEN [http EXCEPT !.pc = "returned", !.result = NoResult]
                          ELSE [http EXCEPT !.pc = "urlopen"]
    /\ UNCHANGED <<now, jobs, schedules, run_logs, alive, last_checked_minute, tasks, ops,
                   started, polled, due_at, due_result, next_at, next_result, next_again,
                   runner, engine, pool, store, codec>>

\* one pass of the attempt loop: urlopen and the handling of what it did
UrlOpen ==
    /\ http.pc = "urlopen"
    /\ \E a \in Answers :
          LET attempt == Len(http.seen)
              seen    == Append(http.seen, a)
          IN  http' =
                CASE a.kind = "response" ->
                        [http EXCEPT !.pc = "returned", !.seen = seen,
                                     !.result = ResultRecord(a.code, FALSE, "")]
                  [] Retried(a, attempt, Attempts(http.retries)) ->
                        [http EXCEPT !.seen = seen, !.sleeps = @ + 1]
                  [] OTHER ->
                        [http EXCEPT !.pc = "returned", !.seen = seen,
                                     !.result = ResultRecord(
                                         IF a.kind = "http_error" THEN a.code ELSE 0,
                                         TRUE, a.text)]
    /\ UNCHANGED <<now, jobs, schedules, run_logs, alive, last_checked_minute, tasks, ops,
                   started, polled, due_at, due_result, next_at, next_result, next_again,
                   runner, engine, pool, store, codec>>

NextRequest ==
    \/ BeginRequest
    \/ UrlOpen

SpecRequest == InitRequest /\ [][NextRequest]_vars


\* ------------------------------------------------------------------------
\* The engine lifecycle on its own: start(), ensure_running() and stop() called one
\* after the other on one engine while the loop threads it created run
\* ------------------------------------------------------------------------
MaxCalls == 4

\* minutes the clock passes through: 0 .. MaxMinute
MaxMinute == 2

InitEngine ==
    /\ Quiescent
    /\ http = NoRequest
    /\ engine = NewEngine
    /\ pool = NewPool
    /\ store = NewStore
    /\ codec = NoCodec

\* the lifecycle call `op` returns, having taken the engine from `engine` to e
Returns(op, e) ==
    [e EXCEPT !.calls = @ + 1,
              !.caller = "none",
              !.last = LifecycleCall(op, IsRunning(engine), EngineState(engine),
                                     EngineState(e)),
              !.after_stop = FALSE,
              !.late_resolve = FALSE,
              !.rejected = FALSE]

\* SchedulerEngine.start()
Start ==
    /\ engine.caller = "none"
    /\ engine.calls < MaxCalls
    /\ engine' = Returns("start", StartEngine(engine))
    /\ UNCHANGED <<now, jobs, schedules, run_logs, alive, last_checked_minute, tasks, ops,
                   started, polled, due_at, due_result, next_at, next_result, next_again,
                   runner, http, pool, store, codec>>

\* SchedulerEngine.ensure_running()
EnsureRunning ==
    /\ engine.caller = "none"
    /\ engine.calls < MaxCalls
    /\ engine' = Returns("ensure_running", EnsureRunningEngine(engine))
    /\ UNCHANGED <<now, jobs, schedules, run_logs, alive, last_checked_minute, tasks, ops,
                   started, polled, due_at, due_result, next_at, next_result, next_again,
                   runner, http, pool, store, codec>>

\* stop(), first half: set the event and wait in join(timeout=5)
StopSet ==
    /\ engine.caller = "none"
    /\ engine.calls < MaxCalls
    /\ engine' = [engine EXCEPT !.stop_event = TRUE, !.caller = "joining"]
    /\ UNCHANGED <<now, jobs, schedules, run_logs, alive, last_checked_minute, tasks, ops,
                   started, polled, due_at, due_result, next_at, next_result, next_again,
                   runner, http, pool, store, codec>>

\* join(timeout=5) gives up while the thread is still alive: the thread is inside a
\* due-job resolution that takes longer than the five seconds (a fast iteration and
\* the sleep of poll_interval, one second by default, reach the loop condition in time)
JoinTimesOut(e) == IsRunning(e) /\ e.threads[e.thread] = "resolve" /\ e.slow

\* stop(), second half: there was no thread, or join returned because the thread
\* finished, or join timed out; then the executor is shut down without waiting
StopReturn ==
    /\ engine.caller = "joining"
    /\ ~IsRunning(engine) \/ JoinTimesOut(engine)
    /\ engine' = [engine EXCEPT !.shutdown = TRUE,
                                !.calls = @ + 1,
                                !.caller = "none",
                                !.last = LifecycleCall("stop", IsRunning(engine),
                                                       EngineState(engine),
                                                       EngineState([engine EXCEPT
                                                                      !.shutdown = TRUE])),
                                !.after_stop = TRUE,
                                !.late_resolve = FALSE]
    /\ UNCHANGED <<now, jobs, schedules, run_logs, alive, last_checked_minute, tasks, ops,
                   started, polled, due_at, due_result, next_at, next_result, next_again,
                   runner, http, pool, store, codec>>

\* datetime.now() moves into the next minute
EngineTick ==
    /\ engine.minute < MaxMinute
    /\ engine' = [engine EXCEPT !.minute = @ + 1]
    /\ UNCHANGED <<now, jobs, schedules, run_logs, alive, last_checked_minute, tasks, ops,
                   started, polled, due_at, due_result, next_at, next_result, next_again,
                   runner, http, pool, store, codec>>

\* _run_loop of thread i at `while not self._stop_event.is_set()`: the thread ends, or
\* begins an iteration: it reads the clock and, when the minute key differs from
\* _last_checked_minute, stores the key and enters _get_due_jobs
LoopCheck(i) ==
    /\ engine.threads[i] = "check"
    /\ \E slow \in BOOLEAN :
          /\ (engine.stop_event \/ engine.minute = engine.last_key) => ~slow
          /\ engine' = IF engine.stop_event
                          THEN [engine EXCEPT !.threads[i] = "dead"]
                          ELSE IF engine.minute # engine.last_key
                                  THEN [engine EXCEPT !.threads[i] = "resolve",
                                                      !.iter_minute[i] = engine.minute,
                                                      !.last_key = engine.minute,
                                                      !.slow = slow]
                                  ELSE [engine EXCEPT !.threads[i] = "sleep",
                                                      !.iter_minute[i] = engine.minute]
    /\ UNCHANGED <<now, jobs, schedules, run_logs, alive, last_checked_minute, tasks, ops,
                   started, polled, due_at, due_result, next_at, next_result, next_again,
                   runner, http, pool, store, codec>>

\* _get_due_jobs returns to thread i with due jobs or none, or raises into the handler
LoopResolve(i) ==
    /\ engine.threads[i] = "resolve"
    /\ \E outcome \in {"due", "none", "raise"} :
          engine' = [engine EXCEPT
                        !.threads[i] = IterationEnd(outcome),
                        !.slow = FALSE,
                        !.late_resolve = @ \/ engine.after_stop,
                        !.caught = @ \/ outcome = "raise",
                        !.done = IF outcome = "none"
                                    THEN @ \cup {engine.iter_minute[i]} ELSE @]
    /\ UNCHANGED <<now, jobs, schedules, run_logs, alive, last_checked_minute, tasks, ops,
                   started, polled, due_at, due_result, next_at, next_result, next_again,
                   runner, http, pool, store, codec>>

\* thread i hands the due jobs to the executor; once the executor is shut down submit
\* raises RuntimeError, which the handler logs, and the iteration goes on to its sleep
LoopSubmit(i) ==
    /\ engine.threads[i] = "submit"
    /\ engine' = IF engine.shutdown
                    THEN [engine EXCEPT !.threads[i] = IterationEnd("raise"),
                                        !.caught = TRUE,
                                        !.rejected = TRUE]
                    ELSE [engine EXCEPT !.threads[i] = "sleep",
                                        !.done = @ \cup {engine.iter_minute[i]}]
    /\ UNCHANGED <<now, jobs, schedules, run_logs, alive, last_checked_minute, tasks, ops,
                   started, polled, due_at, due_result, next_at, next_result, next_again,
                   runner, http, pool, store, codec>>

\* time.sleep(self._poll_interval) of thread i ends
LoopSleep(i) ==
    /\ engine.threads[i] = "sleep"
    /\ engine' = [engine EXCEPT !.threads[i] = "check"]
    /\ UNCHANGED <<now, jobs, schedules, run_logs, alive, last_checked_minute, tasks, ops,
                   started, polled, due_at, due_result, next_at, next_result, next_again,
                   runner, http, pool, store, codec>>

NextEngine ==
    \/ EngineTick
    \/ Start
    \/ EnsureRunning
    \/ StopSet
    \/ StopReturn
    \/ \E i \in 1 .. Len(engine.threads) : LoopCheck(i)
    \/ \E i \in 1 .. Len(engine.threads) : LoopResolve(i)
    \/ \E i \in 1 .. Len(engine.threads) : LoopSubmit(i)
    \/ \E i \in 1 .. Len(engine.threads) : LoopSleep(i)

SpecEngine == InitEngine /\ [][NextEngine]_vars


\* ------------------------------------------------------------------------
\* The worker pool on its own: one running engine whose loop resolves due jobs and
\* submits them to its executor while the workers execute them
\* ------------------------------------------------------------------------

\* work items submitted in one behaviour
MaxDue == 6

InitPool ==
    /\ Quiescent
    /\ http = NoRequest
    /\ engine = NewEngine
    /\ pool = NewPool
    /\ store = NewStore
    /\ codec = NoCodec

\* worker threads waiting for a work item that is not yet in the queue
Idle(p) == Max({0, p.threads - p.executing - p.queue})

\* _run_loop with the event clear, a new minute: _get_due_jobs returns k due jobs,
\* quickly or after more than the five seconds a join waits
PoolResolve ==
    /\ pool.pc = "check"
    /\ ~pool.stop_event
    /\ \E k \in 0 .. (MaxDue - pool.submitted), slow \in BOOLEAN :
          pool' = [pool EXCEPT !.due = k, !.slow = slow,
                               !.pc = IF k > 0 THEN "submit" ELSE "sleep"]
    /\ UNCHANGED <<now, jobs, schedules, run_logs, alive, last_checked_minute, tasks, ops,
                   started, polled, due_at, due_result, next_at, next_result, next_again,
                   runner, http, engine, store, codec>>

\* self._executor.submit(self._run_and_persist, due_job): the work item is queued, a
\* worker thread is started if needed and allowed, and submit returns the future,
\* which the loop drops; on an executor that is shut down submit raises RuntimeError,
\* which ends the for loop in the handler of the iteration
PoolSubmit ==
    /\ pool.pc = "submit"
    /\ pool' = IF pool.shutdown
                  THEN [pool EXCEPT !.due = 0, !.pc = "sleep", !.rejected = TRUE]
                  ELSE [pool EXCEPT !.queue = @ + 1,
                                    !.threads = AdjustThreadCount(@, Idle(pool)),
                                    !.due = @ - 1,
                                    !.submitted = @ + 1,
                                    !.pc = IF pool.due = 1 THEN "sleep" ELSE "submit"]
    /\ UNCHANGED <<now, jobs, schedules, run_logs, alive, last_checked_minute, tasks, ops,
                   started, polled, due_at, due_result, next_at, next_result, next_again,
                   runner, http, engine, store, codec>>

\* time.sleep(self._poll_interval) ends and the loop is back at its condition
PoolSleep ==
    /\ pool.pc = "sleep"
    /\ pool' = [pool EXCEPT !.pc = "check",
                            !.slow = FALSE,
                            !.busy_ticks = IF pool.executing > 0 /\ @ < 1 THEN @ + 1 ELSE @]
    /\ UNCHANGED <<now, jobs, schedules, run_logs, alive, last_checked_minute, tasks, ops,
                   started, polled, due_at, due_result, next_at, next_result, next_again,
                   runner, http, engine, store, codec>>

\* a worker thread that is not executing takes the next work item from the queue and
\* enters _run_and_persist
WorkerTake ==
    /\ pool.queue > 0
    /\ pool.executing < pool.threads
    /\ pool' = [pool EXCEPT !.queue = @ - 1, !.executing = @ + 1]
    /\ UNCHANGED <<now, jobs, schedules, run_logs, alive, last_checked_minute, tasks, ops,
                   started, polled, due_at, due_result, next_at, next_result, next_again,
                   runner, http, engine, store, codec>>

\* _run_and_persist ends in a worker thread, by returning or by raising
WorkerDone ==
    /\ pool.executing > 0
    /\ pool' = [pool EXCEPT !.executing = @ - 1, !.finished = @ + 1]
    /\ UNCHANGED <<now, jobs, schedules, run_logs, alive, last_checked_minute, tasks, ops,
                   started, polled, due_at, due_result, next_at, next_result, next_again,
                   runner, http, engine, store, codec>>

\* _run_loop at its condition with the event set: the loop thread ends
PoolLoopEnd ==
    /\ pool.pc = "check"
    /\ pool.stop_event
    /\ pool' = [pool EXCEPT !.pc = "dead"]
    /\ UNCHANGED <<now, jobs, schedules, run_logs, alive, last_checked_minute, tasks, ops,
                   started, polled, due_at, due_result, next_at, next_result, next_again,
                   runner, http, engine, store, codec>>

\* stop(), first half: set the event and wait in join(timeout=5)
PoolStopSet ==
    /\ ~pool.joining
    /\ pool' = [pool EXCEPT !.stop_event = TRUE, !.joining = TRUE]
    /\ UNCHANGED <<now, jobs, schedules, run_logs, alive, last_checked_minute, tasks, ops,
                   started, polled, due_at, due_result, next_at, next_result, next_again,
                   runner, http, engine, store, codec>>

\* stop(), second half: join returned because the loop thread ended, or gave up because
\* the iteration lasts too long; the executor is shut down without waiting
PoolStopReturn ==
    /\ pool.joining
    /\ pool.pc = "dead" \/ pool.slow
    /\ pool' = [pool EXCEPT !.joining = FALSE,
                            !.shutdown = TRUE,
                            !.queue = ShutdownQueue(@),
                            !.at_stop = AtStop(pool.queue, pool.executing, pool.submitted)]
    /\ UNCHANGED <<now, jobs, schedules, run_logs, alive, last_checked_minute, tasks, ops,
                   started, polled, due_at, due_result, next_at, next_result, next_again,
                   runner, http, engine, store, codec>>

\* start() after the loop thread has ended: the event is cleared and a new thread
\* begins at the loop condition; the executor stays as it is
PoolStart ==
    /\ ~pool.joining
    /\ pool.pc = "dead"
    /\ pool' = [pool EXCEPT !.stop_event = FALSE, !.pc = "check"]
    /\ UNCHANGED <<now, jobs, schedules, run_logs, alive, last_checked_minute, tasks, ops,
                   started, polled, due_at, due_result, next_at, next_result, next_again,
                   runner, http, engine, store, codec>>

NextPool ==
    \/ PoolLoopEnd
    \/ PoolStopSet
    \/ PoolStopReturn
    \/ PoolStart
    \/ PoolResolve
    \/ PoolSubmit
    \/ PoolSleep
    \/ WorkerTake
    \/ WorkerDone

SpecPool == InitPool /\ [][NextPool]_vars

\* worker threads are scheduled, and every execution ends (a process is killed at its
\* timeout, a request at its own): the pool with weak fairness on the workers' steps
SpecPoolFair == SpecPool /\ WF_vars(WorkerTake) /\ WF_vars(WorkerDone)


\* ------------------------------------------------------------------------
\* The store under its callers: the UI and the management API calling the repository,
\* workers persisting runs, and a reader querying the schedules meanwhile
\* ------------------------------------------------------------------------

\* store calls made in one behaviour
MaxStoreCalls == 3

\* the jobs in the database, and the job the calls are made for
StoreJobIds == {1, 2}
StoreCallJobs == {1}

\* (schedule_type, days_mask, date) a schedule is saved with
StoreKinds == {<<"recurring", 127, NULL>>, <<"date", 0, IsoDate(ClockInstants[1])>>}

\* minute_of_day lists a schedule is saved with; NoneInt stands for None
StoreSlotLists == {<<>>, <<600, 605>>, <<7, 1443>>, <<600, NoneInt>>}

\* the variables no store call touches
storeOthers == <<alive, last_checked_minute, tasks, ops, started, polled, due_at,
                 due_result, next_at, next_result, next_again, runner, http, engine, pool,
                 codec>>

\* an existing database with two jobs, each run every day at 10:00 and 10:05
InitStore ==
    /\ now = ClockInstants[1]
    /\ jobs = [j \in StoreJobIds |-> JobRow(j, ExecProgram, 1, 0, NULL)]
    /\ schedules = UNION {InitSlots(j) : j \in StoreJobIds}
    /\ run_logs = {}
    /\ alive = {}
    /\ last_checked_minute = [e \in Engines |-> EmptyStr]
    /\ tasks = <<>>
    /\ ops = 0
    /\ started = <<>>
    /\ polled = [e \in Engines |-> 0]
    /\ due_at = NoDT
    /\ due_result = <<>>
    /\ next_at = NoDT
    /\ next_result = NoRun
    /\ next_again = NotCalled
    /\ runner = NoRunJob
    /\ http = NoRequest
    /\ engine = NewEngine
    /\ pool = NewPool
    /\ store = NewStore
    /\ codec = NoCodec

\* the clock moves on
StoreTick ==
    /\ now = ClockInstants[1]
    /\ now' = ClockInstants[2]
    /\ UNCHANGED <<jobs, schedules, run_logs, store, storeOthers>>

\* the store after the DELETE of replace_schedule_slots(j, kind, slots): a transaction
\* is open on the writing connection
Deleted(j, kind, slots, api_active) ==
    LET pending == DeleteSlots(schedules, j)
    IN  [store EXCEPT
            !.txn = Txn("deleted", j, {s \in schedules : s.job_id = j},
                        NewSlotRows(pending, j, kind[1], slots, kind[2], kind[3]),
                        pending, InsertManyRaises(j, slots), api_active),
            !.observed = FALSE,
            !.seen = {}]

\* Repository.replace_schedule_slots, called by the UI, up to its DELETE
ReplaceBegin(j, kind, slots) ==
    /\ store.txn.pc = "idle"
    /\ store.calls < MaxStoreCalls
    /\ store' = Deleted(j, kind, slots, NoneInt)
    /\ UNCHANGED <<now, jobs, schedules, run_logs, storeOthers>>

\* PUT /tasks/<j> with a schedules list: 404 for a missing job; int(None) raises
\* TypeError (500) before the store is called; an empty list clears the slots; else
\* the slots are replaced with the kind of the first entry, and set_schedule_active
\* follows with its flag
ApiPut(j, kind, slots, active) ==
    /\ store.txn.pc = "idle"
    /\ store.calls < MaxStoreCalls
    /\ store' =
          IF j \notin DOMAIN jobs
             THEN [store EXCEPT !.last = StoreCall("put_404", j, FALSE, FALSE),
                                !.calls = @ + 1]
             ELSE IF \E i \in 1 .. Len(slots) : slots[i] = NoneInt
                     THEN [store EXCEPT !.last = StoreCall("put_500", j, TRUE, FALSE),
                                        !.calls = @ + 1]
                     ELSE IF Len(slots) = 0
                             THEN Deleted(j, <<"recurring", 0, NULL>>, slots, NoneInt)
                             ELSE Deleted(j, kind, slots, active)
    /\ UNCHANGED <<now, jobs, schedules, run_logs, storeOthers>>

\* replace_schedule_slots, the rest: executemany and commit, or IntegrityError, after
\* which conn.close() rolls the DELETE back
ReplaceFinish ==
    /\ store.txn.pc = "deleted"
    /\ schedules' = IF store.txn.raises THEN schedules
                    ELSE store.txn.pending \cup store.txn.new
    /\ store' = [store EXCEPT
                    !.txn.pc = IF ~store.txn.raises /\ store.txn.api_active # NoneInt
                                  THEN "set_active" ELSE "idle",
                    !.last = StoreCall("replace_schedule_slots", store.txn.job,
                                       store.txn.raises, FALSE),
                    !.calls = @ + 1]
    /\ UNCHANGED <<now, jobs, run_logs, storeOthers>>

\* PUT /tasks/<j>, last store call: set_schedule_active(j, active)
ApiSetActive ==
    /\ store.txn.pc = "set_active"
    /\ schedules' = SetActiveRows(schedules, store.txn.job, store.txn.api_active)
    /\ store' = [store EXCEPT !.txn = NoTxn, !.observed = FALSE, !.seen = {},
                              !.last = StoreCall("set_schedule_active", store.txn.job,
                                                 FALSE, FALSE)]
    /\ UNCHANGED <<now, jobs, run_logs, storeOthers>>

\* the scheduler's query on its own connection reads the slots of the job whose slots
\* are being, or were last, replaced
ReadSlots ==
    /\ store.txn.job # 0
    /\ ~store.observed
    /\ store' = [store EXCEPT
                    !.observed = TRUE,
                    !.seen = {s \in ReaderView(schedules,
                                               IF store.txn.pc = "deleted"
                                                  THEN store.txn.pending ELSE schedules) :
                                s.job_id = store.txn.job}]
    /\ UNCHANGED <<now, jobs, schedules, run_logs, storeOthers>>

\* Repository.set_schedule_active, called by the UI
SetScheduleActive(j, active) ==
    /\ store.txn.pc = "idle"
    /\ store.calls < MaxStoreCalls
    /\ schedules' = SetActiveRows(schedules, j, active)
    /\ store' = [store EXCEPT !.txn = NoTxn, !.observed = FALSE, !.seen = {},
                              !.last = StoreCall("set_schedule_active", j, FALSE, FALSE),
                              !.calls = @ + 1]
    /\ UNCHANGED <<now, jobs, run_logs, storeOthers>>

\* Repository.delete_job on an existing job, one transaction
StoreDeleteJob(j) ==
    /\ store.txn.pc = "idle"
    /\ store.calls < MaxStoreCalls
    /\ j \in DOMAIN jobs
    /\ schedules' = DeleteSlots(schedules, j)
    /\ run_logs' = {r \in run_logs : r.job_id # j}
    /\ jobs' = [k \in DOMAIN jobs \ {j} |-> jobs[k]]
    /\ store' = [store EXCEPT !.txn = NoTxn, !.observed = FALSE, !.seen = {},
                              !.last = StoreCall("delete_job", j, FALSE, FALSE),
                              !.calls = @ + 1]
    /\ UNCHANGED <<now, storeOthers>>

\* a worker (or a manual run) enters run_job for job j, scheduled for this minute
StoreWorkerStart(j) ==
    /\ store.calls < MaxStoreCalls
    /\ j \in DOMAIN jobs
    /\ store' = [store EXCEPT
                    !.workers = @ \cup {[job |-> j, scheduled_time |-> TruncMinute(now),
                                         end_time |-> NoDT]},
                    !.calls = @ + 1]
    /\ UNCHANGED <<now, jobs, schedules, run_logs, storeOthers>>

\* run_job returns to the worker: the RunResult carries end_time = datetime.now()
StoreWorkerReturn(w) ==
    /\ w \in store.workers
    /\ w.end_time = NoDT
    /\ store' = [store EXCEPT !.workers = (@ \ {w}) \cup {[w EXCEPT !.end_time = now]}]
    /\ UNCHANGED <<now, jobs, schedules, run_logs, storeOthers>>

\* the later of two instants, NoDT standing for none
LaterDt(a, b) == IF a = NoDT \/ DtLess(a, b) THEN b ELSE a

\* the worker calls persist_run with the result run_job returned
StoreWorkerPersist(w) ==
    /\ store.txn.pc # "deleted"
    /\ w \in store.workers
    /\ w.end_time # NoDT
    /\ LET result == RunResult("success", 0, w.end_time)
       IN  /\ run_logs' = PersistRunLogs(w.job, w.scheduled_time, result)
           /\ jobs' = PersistJobs(w.job, result)
    /\ store' = [store EXCEPT
                    !.workers = @ \ {w},
                    !.persisted_end = IF PersistRaises(w.job) THEN @
                                      ELSE LaterDt(@, w.end_time),
                    !.last = StoreCall("persist_run", w.job, PersistRaises(w.job),
                                       Conflicts(run_logs, w.job,
                                                 IsoMinutes(w.scheduled_time)) # {})]
    /\ UNCHANGED <<now, schedules, storeOthers>>

\* Repository.log_api_test, called by the API test dialog
StoreLogApiTest(j, status_code) ==
    /\ store.txn.pc # "deleted"
    /\ store.calls < MaxStoreCalls
    /\ LET row == RunLogRow(NextRowId(run_logs), j, IsoSeconds(now), IsoSeconds(now),
                            IF 200 <= status_code /\ status_code < 300
                                THEN "success" ELSE "failed",
                            IF status_code # 0 THEN status_code ELSE NoneInt)
           raises == ~ForeignKeyOk(j) \/ InsertRaises(run_logs, row)
       IN  /\ run_logs' = IF raises THEN run_logs ELSE run_logs \cup {row}
           /\ store' = [store EXCEPT
                           !.last = StoreCall("log_api_test", j, raises,
                                              Conflicts(run_logs, j, IsoSeconds(now)) # {}),
                           !.calls = @ + 1]
    /\ UNCHANGED <<now, jobs, schedules, storeOthers>>

\* Repository.create_job, called by POST /tasks and by the UI: the INSERT, and when it
\* is accepted a new row whose id is the next rowid
CreateJob ==
    /\ store.txn.pc # "deleted"
    /\ store.calls < MaxStoreCalls
    /\ LET id == IF DOMAIN jobs = {} THEN 1 ELSE Max(DOMAIN jobs) + 1
       IN  IF CreateJobRaises
              THEN /\ jobs' = jobs
                   /\ store' = [store EXCEPT
                                   !.last = StoreCall("create_job", 0, TRUE, FALSE),
                                   !.calls = @ + 1]
              ELSE /\ jobs' = [k \in DOMAIN jobs \cup {id} |->
                                 IF k = id THEN JobRow(id, ExecProgram, 1, 0, NULL)
                                 ELSE jobs[k]]
                   /\ store' = [store EXCEPT
                                   !.last = StoreCall("create_job", id, FALSE, FALSE),
                                   !.calls = @ + 1]
    /\ UNCHANGED <<now, schedules, run_logs, storeOthers>>

NextStore ==
    \/ StoreTick
    \/ \E j \in StoreCallJobs, k \in StoreKinds, ms \in StoreSlotLists : ReplaceBegin(j, k, ms)
    \/ \E j \in StoreCallJobs, k \in StoreKinds, ms \in StoreSlotLists, a \in {0, 1} :
          ApiPut(j, k, ms, a)
    \/ ReplaceFinish
    \/ ApiSetActive
    \/ ReadSlots
    \/ \E j \in StoreCallJobs, a \in {0, 1} : SetScheduleActive(j, a)
    \/ \E j \in StoreCallJobs : StoreDeleteJob(j)
    \/ \E j \in StoreCallJobs : StoreWorkerStart(j)
    \/ \E w \in store.workers : StoreWorkerReturn(w)
    \/ \E w \in store.workers : StoreWorkerPersist(w)
    \/ \E j \in StoreCallJobs, c \in HttpStatuses : StoreLogApiTest(j, c)
    \/ CreateJob

SpecStore == InitStore /\ [][NextStore]_vars


\* ------------------------------------------------------------------------
\* The parameter encoding on its own: a parameter dict is serialized as the editor
\* stores it in jobs.parameters and parsed back as _run_tool reads it
\* ------------------------------------------------------------------------

\* longest parameter value
MaxValueLen == 2

\* characters of the values: "a", ";" and "="
ValueChars == {97, 59, 61}

ValueTexts == UNION {[1 .. n -> ValueChars] : n \in 0 .. MaxValueLen}

\* parameter names
ParamKeys == {Chars("body"), Chars("url")}

\* dicts of no, one or two parameters, as their items in insertion order
ParamDicts ==
    {<<>>}
    \cup {<< <<k, v>> >> : k \in ParamKeys, v \in ValueTexts}
    \cup UNION {{<< <<k1, v1>>, <<k2, v2>> >> :
                    k2 \in ParamKeys \ {k1}, v1 \in ValueTexts, v2 \in ValueTexts} :
                 k1 \in ParamKeys}

InitCodec ==
    /\ Quiescent
    /\ http = NoRequest
    /\ engine = NewEngine
    /\ pool = NewPool
    /\ store = NewStore
    /\ \E p \in ParamDicts : codec = Codec("dict", p, <<>>, <<>>)

\* serialize_tool_params(params)
Serialize ==
    /\ codec.pc = "dict"
    /\ codec' = [codec EXCEPT !.pc = "text", !.raw = SerializeToolParams(codec.params)]
    /\ UNCHANGED <<now, jobs, schedules, run_logs, alive, last_checked_minute, tasks, ops,
                   started, polled, due_at, due_result, next_at, next_result, next_again,
                   runner, http, engine, pool, store>>

\* parse_tool_params(job.parameters)
Parse ==
    /\ codec.pc = "text"
    /\ codec' = [codec EXCEPT !.pc = "parsed", !.parsed = ParseToolParams(codec.raw)]
    /\ UNCHANGED <<now, jobs, schedules, run_logs, alive, last_checked_minute, tasks, ops,
                   started, polled, due_at, due_result, next_at, next_result, next_again,
                   runner, http, engine, pool, store>>

NextCodec ==
    \/ Serialize
    \/ Parse

SpecCodec == InitCodec /\ [][NextCodec]_vars


\* ------------------------------------------------------------------------
\* Properties of the running system (Spec)
\* ------------------------------------------------------------------------
\* C1: in every reachable state of the store no two run_logs rows share the same
\* (job_id, scheduled_time) pair, whatever the interleaving of persist_run calls from
\* scheduler workers, manual run-now executions and log_api_test calls.
C1_UniqueRunKey ==
    \A r1, r2 \in run_logs :
        (r1.job_id = r2.job_id /\ r1.scheduled_time = r2.scheduled_time) => r1 = r2

\* two executions of a job that exists and returns results were started for one
\* scheduled minute, both have ended, and the minute's row is the second write
C1_TwoWritesOneRow ==
    \E r \in run_logs :
        /\ r.job_id \in DOMAIN jobs
        /\ jobs[r.job_id].exec = ExecProgram
        /\ tasks = <<>>
        /\ r.id >= 2
        /\ \E k1, k2 \in DOMAIN started :
              /\ k1[2] = r.job_id /\ k1[3] = r.scheduled_time
              /\ k2[2] = r.job_id /\ k2[3] = r.scheduled_time
              /\ (k1 # k2 \/ started[k1] >= 2)

\* C2: when a row for (job id, scheduled minute) exists, a later persist_run for the
\* same key leaves it unchanged (status, exit code and end time stay those of the
\* first write); a persisted row is never modified.
C2_FirstWriteKept ==
    [][\A r \in run_logs : \A r2 \in run_logs' :
          (r2.job_id = r.job_id /\ r2.scheduled_time = r.scheduled_time)
              => (r2.status = r.status /\ r2.exit_code = r.exit_code
                  /\ r2.end_time = r.end_time)]_vars

\* C3 as stated: for every (job id, scheduled minute) the pollers together start at
\* most one execution.
C3_OneStartAcrossPollers ==
    \A k1, k2 \in DOMAIN started :
        (k1[1] \in Engines /\ k2[1] \in Engines /\ k1[2] = k2[2] /\ k1[3] = k2[3])
            => (k1 = k2 /\ started[k1] <= 1)

\* C3, what the loop guarantees: each poller resolves the due jobs of a minute at
\* most once (its minute key is stored before the query); the executions of two
\* pollers over one database are not deduplicated against each other.
C3_OneResolutionPerPoller ==
    \A e \in Engines : polled[e] <= 1

\* the UI's engine and the service's engine each started the job for the same minute
C3_BothPollersStarted ==
    \E k1, k2 \in DOMAIN started :
        /\ k1[1] = "ui" /\ k2[1] = "service"
        /\ k1[2] = k2[2] /\ k1[3] = k2[3]
        /\ polled["ui"] = 1 /\ polled["service"] = 1

\* C4: every execution the scheduler loop submitted ends with a row persisted for its
\* (job id, scheduled minute) and the job's last_run_at set to its end time, for every
\* job configuration and also when the job is deleted while it runs. Stated at the
\* step in which the execution leaves the pool.
C4_EveryRunRecorded ==
    [][\A i \in 1..Len(tasks) :
          (tasks[i].origin \in Engines /\ tasks' = RemoveAt(tasks, i)) =>
              /\ \E r \in run_logs' :
                    /\ r.job_id = tasks[i].job.id
                    /\ r.scheduled_time = IsoMinutes(tasks[i].scheduled_time)
              /\ tasks[i].job.id \in DOMAIN jobs'
              /\ jobs'[tasks[i].job.id].last_run_at = IsoSeconds(now)]_vars

\* C8: for a once-per-day job, while an execution one poller started for a slot of
\* the day is still running, that poller starts no execution of the job for another
\* slot of the same day.
C8_OnceWhileRunning ==
    \A i, k \in 1..Len(tasks) :
        (/\ tasks[i].origin \in Engines
         /\ tasks[k].origin = tasks[i].origin
         /\ tasks[k].job.id = tasks[i].job.id
         /\ tasks[i].job.once_per_day = 1
         /\ SameDate(tasks[i].scheduled_time, tasks[k].scheduled_time))
            => tasks[i].scheduled_time = tasks[k].scheduled_time


\* ------------------------------------------------------------------------
\* Properties of the schedule resolver (SpecResolver)
\* ------------------------------------------------------------------------
\* C5: for an active job with recurring slots that is not suppressed by once-per-day
\* and has no run record for the current minute, _get_due_jobs(now) returns the job if
\* and only if it has an active slot whose minute_of_day is now's minute of the day
\* and whose days_mask has bit weekday(now) set (bit 0 = Monday ... bit 6 = Sunday);
\* a Monday-to-Friday mask at minute 600 is due on Wednesday 2024-01-03 10:00 and
\* not on Saturday 2024-01-06 10:00.
C5_RecurringDue ==
    (due_at # NoDT) =>
        LET job == jobs[1]
            returned == \E i \in 1..Len(due_result) : due_result[i].job.id = 1
            suppressed == /\ job.once_per_day = 1
                          /\ job.last_run_at # NULL
                          /\ SubSeq(job.last_run_at, 1, 10) = IsoDate(due_at)
            logged == \E r \in run_logs :
                         /\ r.job_id = 1
                         /\ r.scheduled_time = IsoMinutes(due_at)
            eligible == /\ job.active = 1
                        /\ \A s \in schedules : s.schedule_type = "recurring"
                        /\ ~suppressed
                        /\ ~logged
            bitSet(s) == (s.days_mask \div (2 ^ Weekday(due_at))) % 2 = 1
            slotDue == \E s \in schedules :
                          /\ s.job_id = 1
                          /\ s.active = 1
                          /\ s.minute_of_day = 60 * due_at.hour + due_at.minute
                          /\ bitSet(s)
            weekdays600 == \E s \in schedules :
                              s.active = 1 /\ s.days_mask = 31 /\ s.minute_of_day = 600
        IN  /\ eligible => (returned <=> slotDue)
            /\ (eligible /\ weekdays600 /\ due_at = DT(2024, 1, 3, 10, 0, 0)) => returned
            /\ (eligible /\ weekdays600 /\ due_at = DT(2024, 1, 6, 10, 0, 0)) => ~returned

\* the Monday-to-Friday slot at minute 600 was resolved on Wednesday 10:00 and the job
\* was returned once
C5_WednesdayDue ==
    /\ due_at = DT(2024, 1, 3, 10, 0, 0)
    /\ jobs[1].active = 1
    /\ \E s \in schedules : /\ s.schedule_type = "recurring" /\ s.active = 1
                            /\ s.days_mask = 31 /\ s.minute_of_day = 600
    /\ Len(due_result) = 1
    /\ due_result[1].job.id = 1

\* C6: a monthly job whose stored day of month exceeds the length of the current month
\* is returned by _get_due_jobs on the last day of that month at its slot minute (day
\* 31 fires on day 30 of a 30-day month and on day 28 or 29 of February).
C6_MonthlyClamped ==
    (due_at # NoDT) =>
        LET job == jobs[1]
            returned == \E i \in 1..Len(due_result) : due_result[i].job.id = 1
            suppressed == /\ job.once_per_day = 1
                          /\ job.last_run_at # NULL
                          /\ SubSeq(job.last_run_at, 1, 10) = IsoDate(due_at)
            logged == \E r \in run_logs :
                         /\ r.job_id = 1
                         /\ r.scheduled_time = IsoMinutes(due_at)
            last_day == DaysInMonth(due_at.year, due_at.month)
            clampedSlot == \E s \in schedules :
                              /\ s.job_id = 1
                              /\ s.active = 1
                              /\ s.schedule_type = "monthly"
                              /\ IntParses(s.date)
                              /\ IntOf(s.date) > last_day
                              /\ due_at.day = last_day
                              /\ s.minute_of_day = 60 * due_at.hour + due_at.minute
        IN  (job.active = 1 /\ ~suppressed /\ ~logged /\ clampedSlot) => returned

\* C7: a job with once_per_day = 1 whose last_run_at falls on now's calendar date is
\* never returned by _get_due_jobs(now), whatever slots of it match.
C7_OncePerDaySuppressed ==
    (/\ due_at # NoDT
     /\ jobs[1].once_per_day = 1
     /\ jobs[1].last_run_at # NULL
     /\ SubSeq(jobs[1].last_run_at, 1, 10) = IsoDate(due_at))
        => \A i \in 1..Len(due_result) : due_result[i].job.id # 1

\* a once-per-day job that ran today, has a slot matching now and no run record for
\* the minute was resolved and not returned
C7_SuppressedWithMatchingSlot ==
    /\ due_at # NoDT
    /\ jobs[1].once_per_day = 1
    /\ jobs[1].last_run_at = IsoSeconds(due_at)
    /\ \E s \in schedules : DueQuery(s, due_at)
    /\ run_logs = {}
    /\ due_result = <<>>

\* C9: a job that already has a run record for (job id, now truncated to the minute)
\* is never returned by _get_due_jobs(now).
C9_LoggedMinuteExcluded ==
    (/\ due_at # NoDT
     /\ \E r \in run_logs :
           /\ r.job_id = 1
           /\ r.scheduled_time = IsoMinutes([due_at EXCEPT !.second = 0]))
        => \A i \in 1..Len(due_result) : due_result[i].job.id # 1

\* a job not suppressed by once-per-day, with a slot matching now and a run record for
\* now's minute, was resolved and not returned
C9_LoggedWithMatchingSlot ==
    /\ due_at # NoDT
    /\ jobs[1].once_per_day = 0
    /\ \E s \in schedules : DueQuery(s, due_at)
    /\ \E r \in run_logs : r.job_id = 1 /\ r.scheduled_time = IsoMinutes(due_at)
    /\ due_result = <<>>

\* C10: for every schedule kind and every reference time t (also with a non-zero
\* seconds part, also exactly on a slot's minute) the instant returned by the next-run
\* computation is never earlier than t.
C10_NextRunNotEarlier ==
    (next_at # NoDT /\ next_result.kind = "at") => ~DtLess(next_result.at, next_at)

\* C11: if the next-run computation at reference time t returned instant r, the same
\* computation with r as the reference time returns an instant strictly later than r
\* or none; it never returns r again.
C11_NoSameInstantRepeat ==
    (next_result.kind = "at" /\ next_again # NotCalled) =>
        \/ next_again.kind = "none"
        \/ next_again.kind = "at" /\ DtLess(next_result.at, next_again.at)

\* C12: whenever next_run_for_job returns r for reference time t, no active slot of the
\* job satisfies its kind-specific date condition at any minute strictly between t and
\* r; and it returns none when the job has no active slots.
C12_EarliestFiring ==
    (next_at # NoDT) =>
        LET t == next_at
            r == next_result.at
            active == {s \in schedules : s.job_id = 1 /\ s.active = 1}
            fires(s, d) ==
                \/ s.schedule_type = "recurring" /\ (s.days_mask \div (2 ^ Weekday(d))) % 2 = 1
                \/ s.schedule_type = "date" /\ s.date = IsoDate(d)
                \/ /\ s.schedule_type = "monthly"
                   /\ IntParses(s.date)
                   /\ \/ IntOf(s.date) = d.day
                      \/ /\ IntOf(s.date) > DaysInMonth(d.year, d.month)
                         /\ d.day = DaysInMonth(d.year, d.month)
            at(d, s) == DT(d.year, d.month, d.day, s.minute_of_day \div 60,
                           s.minute_of_day % 60, 0)
        IN  /\ active = {} => next_result.kind = "none"
            /\ next_result.kind = "at" =>
                  \A n \in 0..(ToOrdinal(r) - ToOrdinal(t)) : \A s \in active :
                      LET d == AddDays(t, n)
                      IN  (DtLess(t, at(d, s)) /\ DtLess(at(d, s), r)) => ~fires(s, d)

\* a Saturday-only job with slots at 09:55 and 10:05 asked on Friday 10:00: the answer
\* is Saturday 09:55, with days and slot minutes lying between now and the answer
C12_NextDaySlot ==
    /\ next_at = DT(2024, 1, 5, 10, 0, 0)
    /\ \E s \in schedules : s.active = 1 /\ s.days_mask = 32 /\ s.minute_of_day = 595
    /\ \E s \in schedules : s.active = 1 /\ s.days_mask = 32 /\ s.minute_of_day = 605
    /\ next_result = At(DT(2024, 1, 6, 9, 55, 0))


\* ------------------------------------------------------------------------
\* Properties of the runner (SpecRunner)
\* ------------------------------------------------------------------------
\* C13: run_job returns a RunResult whose status is success, failed or timeout for
\* every job configuration and every backend failure (unparsable URL, unbalanced
\* quotes in the argument string, unknown utility action); it never propagates an
\* exception to its caller.
C13_RunJobReturns ==
    runner.called =>
        /\ ~runner.outcome.raised
        /\ runner.outcome.status \in {"success", "failed", "timeout"}

\* C14: run_job selects exactly one backend by fixed precedence: the HTTP client when
\* api_enabled and method and URL are non-empty; otherwise the utility executor when
\* program_path starts with 'tool:'; otherwise the batch script; otherwise the program.
\* Once a backend is selected no lower-precedence backend is invoked for the run.
C14_BackendPrecedence ==
    runner.called =>
        LET e == runner.exec
            selected ==
                IF e.api_enabled = 1 /\ e.api_method # "" /\ e.api_url # "" THEN "http"
                ELSE IF e.program_path \in {"tool:copy", "tool:delete", "tool:bogus",
                                            "tool:reboot", "tool:email"} THEN "tool"
                ELSE IF e.batch_path # "" THEN "batch"
                ELSE IF e.program_path # "" THEN "program"
                ELSE "none"
        IN  /\ runner.backend \in {selected, "none"}
            /\ selected \in {"http", "tool"} => runner.backend = selected
            /\ (selected = "batch" /\ e.batch_path = "C:/jobs/ok.bat")
                  => runner.backend = "batch"
            /\ (selected = "program" /\ e.program_path = "C:/jobs/ok.exe"
                /\ e.parameters # "'unclosed") => runner.backend = "program"
            /\ runner.backend # "http" => runner.response_status = NoneInt
            /\ runner.backend # "tool" => ~runner.executor

\* a job with an existing batch script and an existing program ran its batch script
C14_BatchBeforeProgram ==
    /\ runner.called
    /\ runner.exec.api_enabled = 0
    /\ runner.exec.batch_path = "C:/jobs/ok.bat"
    /\ runner.exec.program_path = "C:/jobs/ok.exe"
    /\ runner.backend = "batch"
    /\ runner.outcome = Returned("success", 0)

\* C15: for a utility-action job in which a required parameter of its action is
\* missing or empty (e.g. copy without destination), run_job returns status failed and
\* no ToolExecutor action is invoked.
C15_ValidationBeforeAction ==
    (runner.called /\ runner.backend = "tool") =>
        LET e == runner.exec
            copyLacksField == e.parameters \in {"", "-v", "'unclosed", "source=a",
                                                "source=a;destination=",
                                                "source=a;destination", "target=x"}
            deleteLacksField == e.parameters # "target=x"
        IN  ((e.program_path = "tool:copy" /\ copyLacksField)
             \/ (e.program_path = "tool:delete" /\ deleteLacksField))
                => (runner.outcome = Returned("failed", 1) /\ ~runner.executor)

\* copy was run with a source and an empty destination
C15_CopyWithoutDestination ==
    /\ runner.called
    /\ runner.exec.api_enabled = 0
    /\ runner.exec.program_path = "tool:copy"
    /\ runner.exec.parameters = "source=a;destination="
    /\ runner.outcome = Returned("failed", 1)
    /\ ~runner.executor

\* C18: for an HTTP-mode job run_job returns status success if and only if the response
\* status is in 200..299 and failed otherwise; the outcome's exit_code is the response
\* status and is absent exactly when the request failed outright (status 0).
C18_HttpStatusMapping ==
    (runner.called /\ runner.backend = "http" /\ ~runner.outcome.raised) =>
        LET c == runner.response_status
            o == runner.outcome
        IN  /\ o.status = "success" <=> (c >= 200 /\ c <= 299)
            /\ o.status \in {"success", "failed"}
            /\ c # 0 => o.exit_code = c
            /\ o.exit_code = NoneInt <=> c = 0

\* an HTTP-mode job got response status 299 and was recorded as success with code 299
C18_Status299 ==
    /\ runner.called
    /\ runner.backend = "http"
    /\ runner.response_status = 299
    /\ runner.outcome = Returned("success", 299)


\* ------------------------------------------------------------------------
\* Properties of the HTTP client (SpecRequest)
\* ------------------------------------------------------------------------

\* C16: perform_request makes at most max(1, retries + 1) urlopen attempts; an attempt
\* is followed by another one exactly when it failed at transport level and attempts
\* remain; the first attempt that yields an HTTP response, success or error status,
\* ends the call with that status, so an HTTP error is never retried.
C16_RetryTransportOnly ==
    LET limit == IF http.retries + 1 > 1 THEN http.retries + 1 ELSE 1
        n     == Len(http.seen)
    IN  /\ n <= limit
        /\ \A i \in 1 .. n - 1 : http.seen[i].kind = "transport"
        /\ http.sleeps = (IF http.pc = "returned" /\ n > 0 THEN n - 1 ELSE n)
        /\ (n > 0 /\ http.seen[n].kind # "transport") =>
               /\ http.pc = "returned"
               /\ http.result.kind = "record"
               /\ http.result.status = http.seen[n].code
        /\ (n > 0 /\ http.seen[n].kind = "transport") =>
               (http.pc = "urlopen" <=> n < limit)

\* with retries = 2, two transport failures followed by a success return the success
C16_TwoFailuresThenSuccess ==
    /\ http.pc = "returned"
    /\ http.retries = 2
    /\ Len(http.seen) = 3
    /\ http.seen[1].kind = "transport"
    /\ http.seen[2].kind = "transport"
    /\ http.seen[3].kind = "response"
    /\ http.result = ResultRecord(200, FALSE, "")

\* C17: a perform_request call that reached its attempt loop ends after at most
\* max(1, retries + 1) attempts and returns a record, never None, for every retries
\* value including 0 and negative ones; when every attempt failed at transport level
\* the record has status 0 and the error text of the last failure.
C17_ExhaustedReturnsZero ==
    LET limit == IF http.retries + 1 > 1 THEN http.retries + 1 ELSE 1
        n     == Len(http.seen)
    IN  /\ http.pc = "urlopen" => n < limit
        /\ http.pc = "returned" =>
               /\ http.result.kind = "record"
               /\ n >= 1
               /\ (\A i \in 1 .. n : http.seen[i].kind = "transport") =>
                      /\ n = limit
                      /\ http.result = ResultRecord(0, TRUE, http.seen[n].text)

\* retries = 2 and three transport failures: the record carries the third error text
C17_ThreeFailures ==
    /\ http.pc = "returned"
    /\ http.retries = 2
    /\ Len(http.seen) = 3
    /\ \A i \in 1 .. 3 : http.seen[i].kind = "transport"
    /\ http.seen[3].text # http.seen[1].text
    /\ http.seen[3].text # http.seen[2].text
    /\ http.result = ResultRecord(0, TRUE, http.seen[3].text)


\* ------------------------------------------------------------------------
\* Properties of the engine lifecycle (SpecEngine)
\* ------------------------------------------------------------------------

\* C19: whatever sequence of start(), ensure_running() and stop() calls is made on an
\* engine, at most one of its polling-loop threads is alive in every state, and a
\* start() or ensure_running() made while the loop thread is alive leaves _thread, the
\* set of threads, the stop event and the executor as they were.
C19_SingleLoopThread ==
    /\ Cardinality({i \in 1 .. Len(engine.threads) : engine.threads[i] # "dead"}) <= 1
    /\ LET before == engine.last.before
           alive_before == before[1] # 0 /\ before[2][before[1]] # "dead"
       IN  (engine.last.op \in {"start", "ensure_running"} /\ alive_before) =>
               engine.last.after = before

\* a thread was created, stopped and replaced, and ensure_running() then found the
\* second thread alive
C19_EnsureRunningWhileAlive ==
    /\ engine.last.op = "ensure_running"
    /\ engine.last.before[1] = 2
    /\ engine.last.before[2][2] # "dead"
    /\ engine.last.before[2][1] = "dead"
    /\ engine.last.after = engine.last.before

\* C20: once stop() has returned, and until the next lifecycle call, is_running() is
\* false (no loop thread is alive) and no due-job resolution completes, also when the
\* loop was inside a slow iteration when stop() was called.
C20_StoppedAfterStop ==
    engine.after_stop =>
        /\ \A i \in 1 .. Len(engine.threads) : engine.threads[i] = "dead"
        /\ ~engine.late_resolve

\* C21: an engine that was stopped runs again after start() or ensure_running(): once
\* such a call has returned on an engine that stop() was called on before,
\* is_running() is true and the executor accepts the due jobs the loop submits.
C21_RestartRuns ==
    (/\ engine.shutdown
     /\ engine.caller = "none"
     /\ engine.last.op \in {"start", "ensure_running"}) =>
        /\ engine.thread # 0
        /\ engine.threads[engine.thread] # "dead"
        /\ ~engine.rejected

\* C22: an exception raised while a poll iteration resolves or submits due jobs never
\* ends the loop thread: a thread ends only at the loop condition, with the stop event
\* set by stop().
C22_LoopSurvivesExceptions ==
    [][\A i \in 1 .. Len(engine.threads) :
          (engine.threads[i] # "dead" /\ engine'.threads[i] = "dead") =>
              (engine.threads[i] = "check" /\ engine.stop_event)]_vars

\* the handler caught an exception in the running thread, and the thread is resolving
\* due jobs again in a later iteration
C22_PollsAfterException ==
    /\ engine.thread # 0
    /\ engine.caught
    /\ ~engine.stop_event
    /\ engine.threads[engine.thread] = "resolve"

\* C30: a minute key is stored as checked only when the due jobs of that minute were
\* resolved and submitted, or while an iteration is still working on them; so after a
\* failed iteration a later iteration within the same minute tries again.
C30_KeyAfterDispatch ==
    engine.last_key # NoneInt =>
        \/ engine.last_key \in engine.done
        \/ \E i \in 1 .. Len(engine.threads) :
              /\ engine.threads[i] \in {"resolve", "submit"}
              /\ engine.iter_minute[i] = engine.last_key


\* ------------------------------------------------------------------------
\* Properties of the worker pool (SpecPool)
\* ------------------------------------------------------------------------

\* C23: at most max_workers of the jobs an engine dispatched execute at the same time;
\* every other submitted job is waiting in the executor's queue or has finished; and
\* the loop is never held up by them: at a submit or a sleep its next step is enabled
\* whatever the workers are doing.
C23_BoundedWorkers ==
    /\ pool.executing <= max_workers
    /\ pool.threads <= max_workers
    /\ pool.submitted = pool.queue + pool.executing + pool.finished
    /\ pool.pc = "submit" => ENABLED PoolSubmit
    /\ pool.pc = "sleep" => ENABLED PoolSleep

\* four jobs execute, more wait in the queue, and the loop has completed an iteration
\* meanwhile and is at its condition again
C23_FullPoolLoopGoesOn ==
    /\ pool.executing = max_workers
    /\ pool.queue > 0
    /\ pool.busy_ticks > 0
    /\ pool.pc = "check"

\* ------------------------------------------------------------------------
\* Properties of the store under its callers (SpecStore)
\* ------------------------------------------------------------------------

\* C24: no schedule slot and no run record refers to a job that does not exist: after
\* delete_job(j) the rows of j are gone, and none appears while j does not exist, also
\* when a worker that was executing j calls persist_run after the deletion.
C24_NoOrphans ==
    /\ \A s \in schedules : s.job_id \in DOMAIN jobs
    /\ \A r \in run_logs : r.job_id \in DOMAIN jobs

\* a worker called persist_run for a job deleted meanwhile; the call raised and the
\* tables hold nothing of the job
C24_LatePersistRejected ==
    /\ store.last.op = "persist_run"
    /\ store.last.job \notin DOMAIN jobs
    /\ store.last.raised
    /\ \A r \in run_logs : r.job_id # store.last.job
    /\ \A s \in schedules : s.job_id # store.last.job

\* C25: after any sequence of replace_schedule_slots, set_schedule_active, delete_job
\* and PUT /tasks calls, any two slots of one job have the same schedule_type,
\* days_mask, date and active flag.
C25_SlotsShareKind ==
    \A s \in schedules, t \in schedules :
        s.job_id = t.job_id =>
            /\ s.schedule_type = t.schedule_type
            /\ s.days_mask = t.days_mask
            /\ s.date = t.date
            /\ s.active = t.active

\* a PUT replaced the recurring slots of job 1 by two dated slots and deactivated them
C25_ReplacedAndDeactivated ==
    /\ store.last.op = "set_schedule_active"
    /\ \E s \in schedules, t \in schedules :
          /\ s.job_id = 1 /\ t.job_id = 1
          /\ s.minute_of_day # t.minute_of_day
          /\ s.schedule_type = "date"
          /\ s.active = 0

\* C26: what a reader on another connection sees of a job's slots while
\* replace_schedule_slots runs, or after it, is the complete old set or the complete
\* new set; and after a failed bulk insert the job's slots are the old ones.
C26_ReplaceAtomic ==
    /\ store.observed => store.seen \in {store.txn.old, store.txn.new}
    /\ (store.last.op = "replace_schedule_slots" /\ store.last.raised
        /\ store.txn.job # 0) =>
           {s \in schedules : s.job_id = store.txn.job} = store.txn.old

\* the reader ran between the DELETE and the commit of a replacement and saw the two
\* old slots
C26_ReadDuringReplace ==
    /\ store.txn.pc = "deleted"
    /\ store.observed
    /\ store.seen = store.txn.old
    /\ Cardinality(store.txn.old) = 2
    /\ store.txn.new # store.txn.old

\* C27: a run-record write made when a record with the same job id and scheduled_time
\* exists completes without an error, for persist_run and for log_api_test.
C27_DuplicateWritesSilent ==
    (store.last.op \in {"persist_run", "log_api_test"} /\ store.last.dup) =>
        ~store.last.raised

\* C28: create_job returns normally, and the id it returns is that of a job in the
\* store.
C28_CreateJobAddsOne ==
    store.last.op = "create_job" =>
        /\ ~store.last.raised
        /\ store.last.job \in DOMAIN jobs

\* C29: every stored slot has minute_of_day in 0 .. 1439 and a multiple of 5.
C29_SlotsOnGrid ==
    \A s \in schedules :
        /\ 0 <= s.minute_of_day
        /\ s.minute_of_day <= 1439
        /\ s.minute_of_day % 5 = 0

\* ------------------------------------------------------------------------
\* Properties of the runner, continued (SpecRunner)
\* ------------------------------------------------------------------------
\* C31: for a job that is neither HTTP-mode nor a utility action, run_job reports the
\* configuration error (failed, no exit code, no backend reached) only when neither
\* batch_path nor program_path names an existing file; when batch_path is set and does
\* not exist while program_path names an existing file, the program is launched.
C31_ConfigErrorOnlyWhenNeither ==
    LET e == runner.exec
        command_job ==
            /\ ~(e.api_enabled = 1 /\ e.api_method # "" /\ e.api_url # "")
            /\ e.program_path \notin {"tool:copy", "tool:delete", "tool:bogus",
                                      "tool:reboot", "tool:email"}
        config_error ==
            /\ runner.backend = "none"
            /\ runner.outcome = Returned("failed", NoneInt)
    IN  (runner.called /\ command_job) =>
            /\ config_error =>
                  (e.batch_path # "C:/jobs/ok.bat" /\ e.program_path # "C:/jobs/ok.exe")
            /\ (e.batch_path = "C:/jobs/missing.bat" /\ e.program_path = "C:/jobs/ok.exe"
                /\ e.parameters # "'unclosed") => runner.backend = "program"

\* C32: every utility-action run returns status success with exit code 0, or status
\* failed with exit code 1, the latter in every failure case (validation failure,
\* action-reported failure, unknown action name, unparsable parameter value); the exit
\* code is never absent.
C32_ToolExitCode ==
    (runner.called /\ runner.backend = "tool") =>
        /\ ~runner.outcome.raised
        /\ runner.outcome \in {Returned("success", 0), Returned("failed", 1)}
        /\ runner.outcome.exit_code # NoneInt

C34_MonthlyDayDigits ==
    (/\ due_at # NoDT
     /\ jobs[1].active = 1
     /\ jobs[1].last_run_at = NULL
     /\ run_logs = {}) =>
        \A s \in schedules :
            (/\ s.schedule_type = "monthly"
             /\ s.active = 1
             /\ s.minute_of_day = due_at.hour * 60 + due_at.minute
             /\ s.date \in {StrInt(due_at.day), Str2(due_at.day)})
                => \E i \in 1..Len(due_result) : due_result[i].schedule_id = s.id

\* C35: the list returned by _get_due_jobs contains each job at most once, also when
\* the job has several slot rows with the same minute_of_day, so that the loop, which
\* submits every entry of the list, submits a job at most once for a scheduled minute.
C35_JobOncePerResolution ==
    \A i, k \in 1..Len(due_result) :
        due_result[i].job.id = due_result[k].job.id => i = k

\* ------------------------------------------------------------------------
\* Properties of the store under its callers, continued (SpecStore)
\* ------------------------------------------------------------------------
\* C36: when a schedule is saved with its active flag off, the scheduler's query never
\* reads a newly written slot of that job as active, at any point of the save.
C36_InactiveNeverSeenActive ==
    (store.observed /\ store.txn.api_active = 0) =>
        \A s \in store.seen : s \in store.txn.new => s.active = 0

\* C37: a job's last_run_at never moves backwards: after any interleaving of
\* persist_run calls for the job, last_run_at is the latest end_time among the results
\* persisted so far.
C37_LastRunLatest ==
    (store.persisted_end # NoDT /\ 1 \in DOMAIN jobs) =>
        jobs[1].last_run_at = IsoSeconds(store.persisted_end)

\* C38: the next-run computation and the due-job resolution agree: for an active job
\* that never ran and has no run record, the instant returned by next_run_for_job is a
\* minute at which _get_due_jobs reports the job as due, for recurring, date and
\* monthly kinds (also for monthly days that exceed the month's length).
C38_NextRunIsDue ==
    (/\ next_result.kind = "at"
     /\ due_at = next_result.at
     /\ jobs[1].active = 1
     /\ jobs[1].last_run_at = NULL
     /\ run_logs = {}) =>
        \E i \in 1..Len(due_result) : due_result[i].job.id = 1

\* ------------------------------------------------------------------------
\* Properties of the running system, continued (Spec)
\* ------------------------------------------------------------------------
\* C39: a manual run-now of a job does not interfere with its scheduled occurrences.
\* When a poller resolves a minute in which a slot of the job matches, and only manual
\* runs of the job were started so far, the poller starts the job (the manual run made
\* it skip neither this minute nor, for a once-per-day job, the rest of the day); and
\* when a manual run ends, the row a scheduled execution wrote for the same minute
\* stays as it is.
C39_ManualRunApart ==
    [][/\ \A e \in Engines :
             (/\ last_checked_minute'[e] # last_checked_minute[e]
              /\ \E s \in schedules : DueQuery(s, now)
              /\ \A k \in DOMAIN started : k[1] = "manual")
                 => \E k \in DOMAIN started' : k[1] = e
       /\ \A i \in 1..Len(tasks) :
             LET j == tasks[i].job.id
                 m == IsoMinutes(tasks[i].scheduled_time)
             IN  (/\ tasks[i].origin = "manual"
                  /\ tasks' = RemoveAt(tasks, i)
                  /\ started[<<"manual", j, m>>] = 1
                  /\ \E e \in Engines : <<e, j, m>> \in DOMAIN started)
                     => \A r \in run_logs :
                           (r.job_id = j /\ r.scheduled_time = m) => r \in run_logs'
      ]_vars

\* ------------------------------------------------------------------------
\* Properties of the parameter encoding (SpecCodec)
\* ------------------------------------------------------------------------
\* C40: utility-action parameters survive the stored string encoding:
\* parse_tool_params(serialize_tool_params(p)) = p for every parameter dict p with
\* non-empty keys, also when a value contains ';' or '='.
C40_RoundTrip ==
    codec.pc = "parsed" =>
        /\ DOMAIN codec.parsed = {codec.params[i][1] : i \in 1 .. Len(codec.params)}
        /\ \A i \in 1 .. Len(codec.params) :
              codec.parsed[codec.params[i][1]] = codec.params[i][2]

====
